---- MODULE Spec2Model ----
(***************************************************************************)
(* A model of the frappe propagation graph: sinks, streams, the callback   *)
(* registries that connect them, the shared storage behind signals and the *)
(* channel-fed signals.                                                    *)
(*                                                                         *)
(* A registry (Rc<Callbacks<T>>) is a node of the graph.  Stream and Sink  *)
(* handles own registries strongly; the closures pushed on a registry own  *)
(* their output registry weakly.  One Sink::send is one atomic step: the   *)
(* whole synchronous walk of the downstream graph.                         *)
(***************************************************************************)
EXTENDS Integers, Sequences, FiniteSets, TLC

\* ------------------------------------------------------------------ bounds
MaxDerived == 2    \* streams the program may derive with combinators
MaxVal   == 2      \* event payloads sent by the environment are 1..MaxVal
MaxHist  == 3      \* events a signal's stream may deliver over one behaviour
MaxCells == 2      \* storages (hold / fold signals) that may exist
MaxGen   == 3      \* inner streams one switch may receive over one behaviour
MaxSigs  == 2      \* constant, from_fn and mapped signals that may exist
MaxReaders == 2    \* threads other than the propagation thread
MaxSamples == 3    \* sample / sample_with calls on a shared signal

Node  == 1..(3 + MaxDerived)    \* at most three sinks to begin with
Cell  == 1..MaxCells
Val   == 1..MaxVal

\* Thread PropThread owns the graph (Rc is not Send); the others hold a
\* SignalShared made from the Arc<RwLock<T>> that into_inner returned.
Thread     == 0..MaxReaders
PropThread == CHOOSE t \in Thread : \A u \in Thread : t <= u

\* What the memory behind the lock holds: a value; the bits of a value that
\* ptr::read moved out to f; a value half replaced by an assignment.
Whole(v)    == [state |-> "whole", v |-> v]
MovedOut(v) == [state |-> "moved_out", v |-> v]
Partial(v)  == [state |-> "partial", v |-> v]

\* No hold / fold signal was shared yet.  Once one was: op and f say which
\* combinator made it and with which user function, w and r are the
\* threads holding the write and the read lock.
NoLock == [op |-> "", f |-> "", w |-> {}, r |-> {}, poisoned |-> FALSE,
           data |-> Whole(0)]

\* A thread that is in none of send, sample, sample_with.
Idle == [pc |-> "idle", how |-> "", cb |-> "", arg |-> 0,
         old |-> Whole(0), new |-> Whole(0), ret |-> Whole(0)]

VARIABLES
    nodes,      \* number of registries allocated so far (ids 1..nodes)
    ty,         \* ty[n]: payload type of registry n: "int", "sum", "stream"
    source,     \* source[n]: the registries Stream{cbs: n}.source owns
    made,       \* made[n]: the combinator call that made stream n
    regs,       \* regs[n]: the closures of registry n, in push order
    streams,    \* registries the program holds a Stream handle to
    sinks,      \* registries the program holds a Sink handle to
    cells,      \* number of storages allocated so far
    store,      \* store[c]: the value in storage c
    sigsrc,     \* sigsrc[c]: the parent stream SignalShared c keeps alive
    sigmade,    \* sigmade[c]: the call that made signal c
    sigs,       \* storages the program holds a SignalShared handle to
    id,         \* id[n]: the counter of the switch whose output is n
    sent,       \* the values of the latest send / feed, <<registry, value>>
    calls,      \* the Callbacks::call's it made, in order, <<registry, value>>
    evals,      \* the closure bodies it ran, in order, <<registry, kind>>
    outs,       \* the snapshot outputs it made, <<registry, signal value, event>>
    hist,       \* hist[c]: the events the int stream of signal c delivered so far
    cur,        \* cur[n]: the last inner stream sent to the outer stream of switch n
    chan,       \* the queue of the mpsc channel, and how many items it took
    chsig,      \* the signal fed by the channel, and its latest sample
    recv,       \* the Receiver of Stream::channel: held or dropped, and the
                \* items the program took from it, in order
    sigdefs,    \* the constant, from_fn and mapped signals made, in order
    cellv,      \* the value of the Cell the from_fn signals read
    obs,        \* the samples of sigdefs so far: how many, and of the latest
                \* which signal, how, the result
    rwl,        \* the Arc<RwLock<T>> of a hold / fold signal shared with
                \* other threads: who holds it, poisoned or not, its data
    thr,        \* thr[t]: where thread t is in a send, sample or sample_with
    upd         \* the updates of rwl so far: how many, and of the latest the
                \* value before it and the value it stores; the samples so far

vars == <<nodes, ty, source, made, regs, streams, sinks, cells, store, sigsrc,
          sigmade, sigs,
          id, sent, calls, evals, outs, hist, cur, chan, chsig,
          sigdefs, cellv, obs, rwl, thr, upd, recv>>

graphVars  == <<nodes, ty, source, made>>
traceVars  == <<sent, calls, evals, outs>>
handleVars == <<streams, sinks, sigs>>
cellVars   == <<cells, store, sigsrc, sigmade>>
chanVars   == <<chan, chsig, recv>>
dynVars    == <<sigdefs, cellv, obs>>
lockVars   == <<rwl, thr, upd>>

\* ------------------------------------------------------ payloads, functions
\* Option<T>: None is <<>>, Some(v) is <<v>>.
None    == <<>>
Some(v) == <<v>>

\* A value of a two-variant sum type (SumType2): <<variant, payload>>.
is_type1(v)   == v[1] = 1
is_type2(v)   == v[1] = 2
into_type1(v) == IF v[1] = 1 THEN Some(v[2]) ELSE None
into_type2(v) == IF v[1] = 2 THEN Some(v[2]) ELSE None
SumVal        == {<<t, v>> : t \in {1, 2}, v \in Val}

\* A value of type Stream<T>: the registry it wraps.
StreamVal(n) == [cbs |-> n]

\* The user functions the program passes to the combinators.
MapFns    == {"inc", "dbl"}
Preds     == {"even", "gt1"}
OptFns    == {"half"}
FoldFns   == {"add", "shl"}

ApplyMap(f, v) ==
    CASE f = "inc" -> v + 1
      [] f = "dbl" -> 2 * v

ApplyPred(p, v) ==
    CASE p = "even"   -> v % 2 = 0
      [] p = "gt1"    -> v > 1
      [] p = "always" -> TRUE

ApplyOpt(f, v) ==
    CASE f = "half" -> IF v % 2 = 0 THEN Some(v \div 2) ELSE None
      [] f = "boom" -> Some(v)

\* The user function "boom" panics on an odd event and passes an even one.
Faults(f, v) == f = "boom" /\ v % 2 = 1

ApplyFold(f, acc, v) ==
    CASE f = "add" -> acc + v
      [] f = "shl" -> 2 * acc + v

\* Iterator::fold
RECURSIVE FoldLeft(_, _, _)
FoldLeft(f, acc, xs) ==
    IF xs = <<>> THEN acc ELSE FoldLeft(f, ApplyFold(f, acc, xs[1]), Tail(xs))

ApplySnap(f, a, b) ==
    CASE f = "pair" -> <<a, b>>

\* ------------------------------------------------------------- ownership
\* Stream{cbs, source}: a Stream handle on n owns registry n and, through
\* source, a Stream handle on each parent.
RECURSIVE StreamOwns(_)
StreamOwns(S) ==
    LET T == S \cup UNION {source[n] : n \in S}
    IN  IF T = S THEN S ELSE StreamOwns(T)

\* The storages the snapshot closures registered on the registries L capture
\* (the closure owns a clone of the signal).
Captured(R, L) ==
    UNION {{R[n][i].c : i \in {j \in 1..Len(R[n]) : R[n][j].f = "some_sample_with"}} :
           n \in L}

\* SignalShared(storage, Some(Rc<parent stream>)): the parents signals own.
SigParents(C) == {sigsrc[c] : c \in C} \ {0}

RECURSIVE LiveFrom(_, _)
LiveFrom(R, L) ==
    LET T == L \cup StreamOwns(SigParents(Captured(R, L)))
    IN  IF T = L THEN L ELSE LiveFrom(R, T)

\* The registries with a strong count above zero, given the closures R.
LiveNodes(R) == LiveFrom(R, sinks \cup StreamOwns(streams \cup SigParents(sigs)))

\* The storages with a strong count above zero.
LiveCells(R) == sigs \cup Captured(R, LiveNodes(R))

\* Weak<Callbacks<T>>::upgrade and Weak<RwLock<T>>::upgrade succeed.
upgrade(G, w)      == w \in LiveNodes(G.regs)
upgrade_cell(G, c) == c \in LiveCells(G.regs)

\* ------------------------------------------------------------ propagation
\* G is the part of the state one propagation changes.
GraphState ==
    [regs |-> regs, store |-> store, id |-> id, chan |-> chan,
     hist |-> hist, calls |-> <<>>, evals |-> <<>>, outs |-> <<>>]

Ran(G, n, kind) == [G EXCEPT !.evals = Append(@, <<n, kind>>)]

\* A panic that stops where it was raised.
Unwinding_caught(G) == FALSE

\* A user function panicked in this propagation: nothing in lib.rs
\* catches it, the stack is unwinding towards the caller of send.
Unwinding(G) == \E i \in 1..Len(G.evals) : G.evals[i][2] = "panic"

\* A closure of a registry; the fields a kind does not use are 0 or "".
Closure(kind, w, w2, f, g, c, my_id) ==
    [kind |-> kind, w |-> w, w2 |-> w2, f |-> f, g |-> g, c |-> c,
     my_id |-> my_id]

RECURSIVE Callbacks_call(_, _, _)
RECURSIVE Retain(_, _, _, _, _, _)
RECURSIVE Invoke(_, _, _, _)

\* Callbacks::push
Callbacks_push(R, n, cl) == [R EXCEPT ![n] = Append(@, cl)]

\* helpers::with_weak: when the registry w is still there, what running f
\* on it makes of G (after) and true; G as it was and false when it is gone.
with_weak(G, w, after) ==
    IF upgrade(G, w) THEN [G |-> after, keep |-> TRUE]
                     ELSE [G |-> G, keep |-> FALSE]

\* A filter that forwards without asking the predicate.
filter_cb_nopred(G, n, cl, arg) ==
    [G |-> Callbacks_call(Ran(G, n, "filter"), cl.w, arg), keep |-> TRUE]

\* The closure Stream::filter pushes on its input.
filter_cb(G, n, cl, arg) ==
    with_weak(G, cl.w,
        IF ApplyPred(cl.g, arg)
        THEN Callbacks_call(Ran(G, n, "filter"), cl.w, arg)
        ELSE Ran(G, n, "filter"))

\* A snapshot that combines the event with the signal's first value.
filter_map_f_cached(G, cl, arg) ==
    CASE cl.f = "opt"  -> ApplyOpt(cl.g, arg)
      [] cl.f = "some" -> Some(ApplyMap(cl.g, arg))
      [] cl.f = "some_sample_with" ->
            Some(ApplySnap(cl.g, sigmade[cl.c].initial, arg))

\* The function a filter_map closure holds: the user's f, or the wrapper
\* Stream::map builds around it, or the one Signal::snapshot builds.
filter_map_f(G, cl, arg) ==
    CASE cl.f = "opt"  -> ApplyOpt(cl.g, arg)
      [] cl.f = "some" -> Some(ApplyMap(cl.g, arg))
      [] cl.f = "some_sample_with" ->
            Some(ApplySnap(cl.g, G.store[cl.c], arg))

\* A filter_map closure that runs f and leaves the delivery for later.
filter_map_cb_deferred(G, n, cl, arg) ==
    with_weak(G, cl.w, Ran(G, n, cl.f))

\* The closure Stream::filter_map pushes on its input.
filter_map_cb(G, n, cl, arg) ==
    with_weak(G, cl.w,
        IF Faults(cl.g, arg) THEN Ran(G, n, "panic") ELSE
        LET r  == filter_map_f(G, cl, arg)
            G1 == Ran(G, n, cl.f)
            G2 == IF cl.f = "some_sample_with"
                  THEN [G1 EXCEPT !.outs = Append(@, <<cl.w, G.store[cl.c], arg>>)]
                  ELSE G1
        IN  IF r # None THEN Callbacks_call(G2, cl.w, r[1]) ELSE G2)

\* A merge closure that drops the event when it is the second of a pass.
merge_cb_once(G, n, cl, arg) ==
    with_weak(G, cl.w,
        IF \E i \in 1..Len(G.calls) : G.calls[i][1] = cl.w
        THEN G ELSE Callbacks_call(G, cl.w, arg))

\* A merge closure that stays registered after its output is gone.
merge_cb_keep(G, n, cl, arg) ==
    [G |-> IF upgrade(G, cl.w) THEN Callbacks_call(G, cl.w, arg) ELSE G,
     keep |-> TRUE]

\* The two closures Stream::merge pushes, one on each input.
merge_cb(G, n, cl, arg) ==
    with_weak(G, cl.w, Callbacks_call(G, cl.w, arg))

\* A hold_if that stores every event.
hold_if_cb_always(G, n, cl, arg) ==
    IF upgrade_cell(G, cl.c)
    THEN [G |-> [Ran(G, n, "hold_if") EXCEPT !.store[cl.c] = arg], keep |-> TRUE]
    ELSE [G |-> G, keep |-> FALSE]

\* The closure Stream::hold_if pushes on its input; the storage is held
\* weakly.
hold_if_cb(G, n, cl, arg) ==
    IF upgrade_cell(G, cl.c)
    THEN [G |-> IF ApplyPred(cl.g, arg)
                THEN [Ran(G, n, "hold_if") EXCEPT !.store[cl.c] = arg]
                ELSE Ran(G, n, "hold_if"),
          keep |-> TRUE]
    ELSE [G |-> G, keep |-> FALSE]

\* A fold that passes the event and the accumulator the wrong way round.
fold_cb_swapped(G, n, cl, arg) ==
    IF upgrade_cell(G, cl.c)
    THEN [G |-> [Ran(G, n, "fold") EXCEPT
                    !.store[cl.c] = ApplyFold(cl.g, arg, G.store[cl.c])],
          keep |-> TRUE]
    ELSE [G |-> G, keep |-> FALSE]

\* The closure Stream::fold pushes on its input: the accumulator is read
\* out, f is applied, the result is written back, under the write lock.
fold_cb(G, n, cl, arg) ==
    IF upgrade_cell(G, cl.c)
    THEN LET old == G.store[cl.c]
             new == ApplyFold(cl.g, old, arg)
         IN  [G |-> [Ran(G, n, "fold") EXCEPT !.store[cl.c] = new],
              keep |-> TRUE]
    ELSE [G |-> G, keep |-> FALSE]

\* The values a map_n user function sends on the Sink it is given.
ApplyMapN(f, v) ==
    CASE f = "dup"  -> <<v, v + 1>>
      [] f = "one"  -> <<v>>
      [] f = "none" -> <<>>

RECURSIVE SendAll(_, _, _)

\* An f whose sends reach the output last first.
SendAll_reversed(G, n, vals) ==
    IF vals = <<>> THEN G
    ELSE Callbacks_call(SendAll(G, n, Tail(vals)), n, vals[1])

\* The sends f makes on the Sink it is given, one after the other.
SendAll(G, n, vals) ==
    IF vals = <<>> THEN G
    ELSE SendAll(Callbacks_call(G, n, vals[1]), n, Tail(vals))

\* A map_n closure that runs f before it looks for its output.
map_n_cb_eager(G, n, cl, arg) ==
    IF upgrade(G, cl.w)
    THEN [G |-> SendAll(Ran(G, n, "map_n"), cl.w, ApplyMapN(cl.g, arg)),
          keep |-> TRUE]
    ELSE [G |-> Ran(G, n, "map_n"), keep |-> FALSE]

\* The closure Stream::map_n pushes on its input: f(arg, Sink{cbs: cb}).
map_n_cb(G, n, cl, arg) ==
    with_weak(G, cl.w,
        SendAll(Ran(G, n, "map_n"), cl.w, ApplyMapN(cl.g, arg)))

\* A split closure that gives up as soon as one output is gone.
split_cb_either(G, n, cl, result) ==
    IF ~upgrade(G, cl.w) \/ ~upgrade(G, cl.w2)
    THEN [G |-> Ran(G, n, "split"), keep |-> FALSE]
    ELSE [G |-> Callbacks_call(Ran(G, n, "split"),
                               IF is_type1(result) THEN cl.w ELSE cl.w2,
                               result[2]),
          keep |-> TRUE]

\* The closure Stream::split pushes on its input, shared by both outputs.
split_cb(G, n, cl, result) ==
    LET H == Ran(G, n, "split") IN
    CASE is_type1(result) /\ upgrade(H, cl.w) ->
            [G |-> Callbacks_call(H, cl.w, into_type1(result)[1]), keep |-> TRUE]
      [] ~is_type1(result) /\ upgrade(H, cl.w2) ->
            [G |-> Callbacks_call(H, cl.w2, into_type2(result)[1]), keep |-> TRUE]
      [] OTHER ->
            IF ~upgrade(H, cl.w) /\ ~upgrade(H, cl.w2)
            THEN [G |-> H, keep |-> FALSE]
            ELSE [G |-> H, keep |-> TRUE]

\* An inner subscription that forwards whatever its generation.
switch_inner_cb_stale(G, n, cl, arg) ==
    with_weak(G, cl.w, Callbacks_call(G, cl.w, arg))

\* The closure switch pushes on each inner stream it receives.
\* An inner subscription that stays registered once it is stale.
switch_inner_cb_linger(G, n, cl, arg) ==
    IF cl.my_id # G.id[cl.w]
    THEN [G |-> G, keep |-> TRUE]
    ELSE with_weak(G, cl.w, Callbacks_call(G, cl.w, arg))

switch_inner_cb(G, n, cl, arg) ==
    IF cl.my_id # G.id[cl.w]
    THEN [G |-> G, keep |-> FALSE]
    ELSE with_weak(G, cl.w, Callbacks_call(G, cl.w, arg))

\* An outer closure that hands out the generation it finds, then counts.
switch_cb_reuse(G, n, cl, stream) ==
    IF ~upgrade(G, cl.w)
    THEN [G |-> G, keep |-> FALSE]
    ELSE LET my_id == G.id[cl.w]
             H     == Ran(G, n, "switch")
         IN  [G |-> [H EXCEPT
                        !.id[cl.w]  = IF my_id = 0 THEN 1 ELSE my_id,
                        !.regs = Callbacks_push(@, stream.cbs,
                                    Closure("switch_inner", cl.w, 0, "", "", 0, my_id))],
              keep |-> TRUE]

\* The closure switch pushes on the outer stream.
switch_cb(G, n, cl, stream) ==
    IF ~upgrade(G, cl.w)
    THEN [G |-> G, keep |-> FALSE]
    ELSE LET my_id == G.id[cl.w] + 1
             H     == Ran(G, n, "switch")
         IN  [G |-> [H EXCEPT
                        !.id[cl.w]  = my_id,
                        !.regs = Callbacks_push(@, stream.cbs,
                                    Closure("switch_inner", cl.w, 0, "", "", 0, my_id))],
              keep |-> TRUE]

\* A channel closure that stays registered whatever send returns.
channel_cb_keep(G, n, cl, arg) ==
    IF recv.held = "held"
    THEN [G |-> [Ran(G, n, "channel") EXCEPT
                    !.chan = [rx |-> Append(@.rx, arg), total |-> @.total + 1]],
          keep |-> TRUE]
    ELSE [G |-> Ran(G, n, "channel"), keep |-> TRUE]

\* The closure Stream::channel pushes: `tx.send(arg.into_owned()).is_ok()`;
\* send fails once the Receiver was dropped.
channel_cb(G, n, cl, arg) ==
    IF recv.held = "held"
    THEN [G |-> [Ran(G, n, "channel") EXCEPT
                    !.chan = [rx |-> Append(@.rx, arg), total |-> @.total + 1]],
          keep |-> TRUE]
    ELSE [G |-> Ran(G, n, "channel"), keep |-> FALSE]

Invoke(G, n, cl, arg) ==
    CASE cl.kind = "filter"       -> filter_cb(G, n, cl, arg)
      [] cl.kind = "filter_map"   -> filter_map_cb(G, n, cl, arg)
      [] cl.kind = "merge"        -> merge_cb(G, n, cl, arg)
      [] cl.kind = "hold_if"      -> hold_if_cb(G, n, cl, arg)
      [] cl.kind = "fold"         -> fold_cb(G, n, cl, arg)
      [] cl.kind = "map_n"        -> map_n_cb(G, n, cl, arg)
      [] cl.kind = "split"        -> split_cb(G, n, cl, arg)
      [] cl.kind = "switch"       -> switch_cb(G, n, cl, arg)
      [] cl.kind = "switch_inner" -> switch_inner_cb(G, n, cl, arg)
      [] cl.kind = "channel"      -> channel_cb(G, n, cl, arg)

\* A pass that stops after the first entry.
Retain_first(G, n, entries, i, kept, arg) ==
    IF entries = <<>> THEN G
    ELSE LET r == Invoke(G, n, entries[1], arg)
         IN  [r.G EXCEPT !.regs[n] =
                (IF r.keep THEN <<entries[1]>> ELSE <<>>) \o Tail(@)]

\* Vec::retain over the entries present when the call began: the entries
\* that returned true stay, in their order, before anything pushed meanwhile.
\* A panic in an entry leaves the loop: that entry and the ones after it
\* stay and are not invoked.
Retain(G, n, entries, i, kept, arg) ==
    IF i > Len(entries)
    THEN [G EXCEPT !.regs[n] = kept \o SubSeq(@, Len(entries) + 1, Len(@))]
    ELSE LET r == Invoke(G, n, entries[i], arg)
         IN  IF Unwinding(r.G)
             THEN [r.G EXCEPT !.regs[n] = kept \o SubSeq(@, i, Len(@))]
             ELSE Retain(r.G, n, entries, i + 1,
                         IF r.keep THEN Append(kept, entries[i]) ELSE kept, arg)

\* Callbacks::call / call_cow: every entry in push order, keeping those
\* that return true.
Callbacks_call(G, n, arg) ==
    LET H == [G EXCEPT
                !.calls = Append(@, <<n, arg>>),
                !.hist  = [c \in Cell |->
                             IF sigsrc[c] = n /\ ty[n] = "int" /\ upgrade_cell(G, c)
                             THEN Append(@[c], arg) ELSE @[c]]]
    IN  IF Unwinding(G) THEN G ELSE Retain(H, n, G.regs[n], 1, <<>>, arg)

\* ------------------------------------------------------------------ state
NoNode == 0

\* No Signal::from_channel / fold_channel was called yet.  Once one was:
\* kind and f say which, storage is its Storage<T>; n counts the samples,
\* and of the latest sample, before is what the sample before it returned
\* (initial for the first), drained what was queued, ret what it returned,
\* left what it left queued.
NoChannelSignal ==
    [kind |-> "", f |-> "", initial |-> 0, storage |-> 0, n |-> 0,
     before |-> 0, drained |-> <<>>, ret |-> 0, left |-> <<>>]

\* Stream::channel was not called yet.
NoReceiver == [held |-> "none", got |-> <<>>]

\* No signal of sigdefs was sampled yet.
NoSample == [n |-> 0, of |-> 0, how |-> "", ret |-> 0]

\* What the program asked for when it made a stream: the combinator, its
\* functions, and the streams it was applied to.
Made(op, f, g, c, inputs) ==
    [op |-> op, f |-> f, g |-> g, c |-> c, inputs |-> inputs]

\* The state after `Sink::new()` for each payload type of `types`.
InitWith(types) ==
    /\ nodes   = Len(types)
    /\ ty      = [n \in Node |-> IF n <= Len(types) THEN types[n] ELSE ""]
    /\ source  = [n \in Node |-> {}]
    /\ made    = [n \in Node |-> Made("", "", "", 0, {})]
    /\ regs    = [n \in Node |-> <<>>]
    /\ streams = {}
    /\ sinks   = 1..Len(types)
    /\ cells   = 0
    /\ store   = [c \in Cell |-> 0]
    /\ sigsrc  = [c \in Cell |-> NoNode]
    /\ sigmade = [c \in Cell |-> [op |-> "", g |-> "", initial |-> 0]]
    /\ sigs    = {}
    /\ id      = [n \in Node |-> 0]
    /\ sent    = <<>>
    /\ calls   = <<>>
    /\ evals   = <<>>
    /\ outs    = <<>>
    /\ hist    = [c \in Cell |-> <<>>]
    /\ cur     = [n \in Node |-> NoNode]
    /\ chan    = [rx |-> <<>>, total |-> 0]
    /\ chsig   = NoChannelSignal
    /\ recv    = NoReceiver
    /\ sigdefs = <<>>
    /\ cellv   = 1
    /\ obs     = NoSample
    /\ rwl     = NoLock
    /\ thr     = [t \in Thread |-> Idle]
    /\ upd     = [n |-> 0, pre |-> Whole(0), post |-> Whole(0), reentered |-> FALSE,
                  samples |-> 0]

\* Sink::stream: Stream{cbs: self.cbs.clone(), source: None}, a handle on
\* the sink's own registry, to be had whenever the sink is held.
Sink_stream == sinks

\* The streams the program can name: those it holds and its sinks' streams.
Held == streams \cup Sink_stream

\* The values a program can send into a sink of registry n.
Payload(n) ==
    CASE ty[n] = "int"    -> Val
      [] ty[n] = "sum"    -> SumVal
      [] ty[n] = "stream" -> {StreamVal(m) : m \in {k \in Held : ty[k] = "int"}}
      [] OTHER            -> {}

\* Writes back what one propagation changed.
Commit(G) ==
    /\ regs'  = G.regs
    /\ store' = G.store
    /\ id'    = G.id
    /\ calls' = G.calls
    /\ evals' = G.evals
    /\ outs'  = G.outs
    /\ chan'  = G.chan
    /\ hist'  = G.hist

\* Any operation other than a send leaves no trace of a propagation.
NoTrace == sent' = <<>> /\ calls' = <<>> /\ evals' = <<>> /\ outs' = <<>>

\* A new Stream{cbs: new registry, source: Some(parents)} of type t, with
\* the closures `pushes` (<<registry, closure>>, in order) registered.
RECURSIVE PushAll(_, _)
PushAll(R, pushes) ==
    IF pushes = <<>> THEN R
    ELSE PushAll(Callbacks_push(R, pushes[1][1], pushes[1][2]), Tail(pushes))

\* A new stream that keeps no reference to the streams it came from.
NewStream_nosource(t, parents, op, pushes) ==
    LET new == nodes + 1 IN
    /\ Cardinality({n \in 1..nodes : made[n].op # ""}) < MaxDerived
    /\ nodes'   = new
    /\ ty'      = [ty EXCEPT ![new] = t]
    /\ source'  = source
    /\ made'    = [made EXCEPT ![new] = op]
    /\ regs'    = PushAll(regs, pushes)
    /\ streams' = streams \cup {new}

NewStream(t, parents, op, pushes) ==
    LET new == nodes + 1 IN
    /\ Cardinality({n \in 1..nodes : made[n].op # ""}) < MaxDerived
    /\ nodes'   = new
    /\ ty'      = [ty EXCEPT ![new] = t]
    /\ source'  = [source EXCEPT ![new] = parents]
    /\ made'    = [made EXCEPT ![new] = op]
    /\ regs'    = PushAll(regs, pushes)
    /\ streams' = streams \cup {new}

\* ---------------------------------------------------------------- actions
\* Sink::send
Sink_send(s, val) ==
    /\ s \in sinks
    /\ \A c \in Cell : Len(hist[c]) < MaxHist
    /\ ty[s] = "stream" => \A n \in Node : id[n] < MaxGen
    /\ sent' = <<(<<s, val>>)>>
    /\ cur'  = [o \in Node |->
                    IF ty[s] = "stream" /\ made[o].op = "switch" /\ made[o].inputs = {s}
                    THEN val.cbs ELSE cur[o]]
    /\ \E G \in {Callbacks_call(GraphState, s, val)} : Commit(G)
    /\ UNCHANGED <<graphVars, handleVars, cells, sigsrc, sigmade, chsig, recv, dynVars, lockVars>>

\* Sink::feed, for an iterator of two values
Sink_feed(s, v1, v2) ==
    /\ s \in sinks
    /\ \A c \in Cell : Len(hist[c]) + 2 <= MaxHist
    /\ sent' = <<(<<s, v1>>), (<<s, v2>>)>>
    /\ ty[s] # "stream"
    /\ cur'  = cur
    /\ \E G \in {Callbacks_call(Callbacks_call(GraphState, s, v1), s, v2)} : Commit(G)
    /\ UNCHANGED <<graphVars, handleVars, cells, sigsrc, sigmade, chsig, recv, dynVars, lockVars>>

\* Stream::filter_map
Stream_filter_map(self, f, g, c) ==
    /\ self \in Held
    /\ ty[self] = "int"
    /\ NewStream(IF f = "some_sample_with" THEN "pair" ELSE "int", {self},
                 Made("filter_map", f, g, c, {self}),
                 <<(<<self, Closure("filter_map", nodes + 1, 0, f, g, c, 0)>>)>>)
    /\ UNCHANGED <<sinks, sigs, cellVars, id, hist, cur, chanVars, dynVars, lockVars>>
    /\ NoTrace

\* Stream::map
Stream_map(self, f) == Stream_filter_map(self, "some", f, 0)

\* Stream::filter
Stream_filter(self, pred) ==
    /\ self \in Held
    /\ ty[self] = "int"
    /\ NewStream(ty[self], {self},
                 Made("filter", "", pred, 0, {self}),
                 <<(<<self, Closure("filter", nodes + 1, 0, "", pred, 0, 0)>>)>>)
    /\ UNCHANGED <<sinks, sigs, cellVars, id, hist, cur, chanVars, dynVars, lockVars>>
    /\ NoTrace

\* Stream::merge
Stream_merge(self, other) ==
    /\ self \in Held /\ other \in Held
    /\ ty[self] = "int" /\ ty[other] = "int"
    /\ NewStream(ty[self], {self, other},
                 Made("merge", "", "", 0, {self, other}),
                 <<(<<self,  Closure("merge", nodes + 1, 0, "", "", 0, 0)>>),
                   (<<other, Closure("merge", nodes + 1, 0, "", "", 0, 0)>>)>>)
    /\ UNCHANGED <<sinks, sigs, cellVars, id, hist, cur, chanVars, dynVars, lockVars>>
    /\ NoTrace

\* Stream::map_n
Stream_map_n(self, f) ==
    /\ self \in Held
    /\ ty[self] = "int"
    /\ NewStream("int", {self},
                 Made("map_n", "", f, 0, {self}),
                 <<(<<self, Closure("map_n", nodes + 1, 0, "", f, 0, 0)>>)>>)
    /\ UNCHANGED <<sinks, sigs, cellVars, id, hist, cur, chanVars, dynVars, lockVars>>
    /\ NoTrace

\* Stream::split: two outputs, one closure, one shared source.
Stream_split(self) ==
    LET new1 == nodes + 1
        new2 == nodes + 2
    IN
    /\ self \in Held
    /\ ty[self] = "sum"
    /\ Cardinality({n \in 1..nodes : made[n].op # ""}) + 2 <= MaxDerived
    /\ nodes'   = new2
    /\ ty'      = [ty EXCEPT ![new1] = "int", ![new2] = "int"]
    /\ source'  = [source EXCEPT ![new1] = {self}, ![new2] = {self}]
    /\ made'    = [made EXCEPT
                      ![new1] = Made("split", "", "type1", 0, {self}),
                      ![new2] = Made("split", "", "type2", 0, {self})]
    /\ regs'    = Callbacks_push(regs, self,
                                 Closure("split", new1, new2, "", "", 0, 0))
    /\ streams' = streams \cup {new1, new2}
    /\ UNCHANGED <<sinks, sigs, cellVars, id, hist, cur, chanVars, dynVars, lockVars>>
    /\ NoTrace

\* Stream<Stream<T>>::switch
Stream_switch(self) ==
    /\ self \in Held
    /\ ty[self] = "stream"
    /\ NewStream("int", {self},
                 Made("switch", "", "", 0, {self}),
                 <<(<<self, Closure("switch", nodes + 1, 0, "", "", 0, 0)>>)>>)
    /\ UNCHANGED <<sinks, sigs, cellVars, id, hist, cur, chanVars, dynVars, lockVars>>
    /\ NoTrace

\* A new SignalShared(storage, Some(Rc<self>)) whose storage holds initial
\* and is written by the closure cl pushed on self.
NewSignal(self, initial, kind, g) ==
    LET c == cells + 1 IN
    /\ self \in Held
    /\ cells < MaxCells
    /\ cells'  = c
    /\ store'  = [store EXCEPT ![c] = initial]
    /\ sigsrc' = [sigsrc EXCEPT ![c] = self]
    /\ sigmade' = [sigmade EXCEPT ![c] = [op |-> kind, g |-> g, initial |-> initial]]
    /\ sigs'   = sigs \cup {c}
    /\ regs'   = Callbacks_push(regs, self, Closure(kind, 0, 0, "", g, c, 0))
    /\ UNCHANGED <<graphVars, streams, sinks, id, hist, cur, chanVars, dynVars, lockVars>>
    /\ NoTrace

\* Stream::hold_if
Stream_hold_if(self, initial, pred) ==
    /\ ty[self] = "int" \/ (ty[self] = "pair" /\ pred = "always")
    /\ NewSignal(self, initial, "hold_if", pred)

\* Stream::hold
Stream_hold(self, initial) == Stream_hold_if(self, initial, "always")

\* Stream::fold
Stream_fold(self, initial, f) ==
    /\ ty[self] = "int"
    /\ NewSignal(self, initial, "fold", f)

\* Signal::sample for a SignalShared: a clone of the stored value.
SignalShared_sample(c) == store[c]

\* Signal::snapshot for a SignalShared
Signal_snapshot(c, trigger, f) ==
    /\ c \in sigs
    /\ Stream_filter_map(trigger, "some_sample_with", f, c)

\* drop(signal)
Drop_Signal(c) ==
    /\ c \in sigs
    /\ sigs' = sigs \ {c}
    /\ UNCHANGED <<graphVars, regs, streams, sinks, cellVars, id, hist, cur,
                   chanVars, dynVars, lockVars>>
    /\ NoTrace

\* Storage::get, Storage::set, Storage::take on a one-value cell.
Storage_get(st)    == st
Storage_set(st, v) == v
Storage_take(st)   == st

\* Receiver::try_iter().last(): the last item queued, if any.
try_iter_last(rx) == IF rx = <<>> THEN None ELSE Some(rx[Len(rx)])

\* The closure of Signal::from_channel: the storage after one sample.
from_channel_f(storage, rx) ==
    LET last == try_iter_last(rx)
    IN  IF last # None THEN Storage_set(storage, last[1]) ELSE storage

\* A fold_channel closure that folds but does not store the result.
fold_channel_f_noset(storage, rx, f) == storage

\* The closure of Signal::fold_channel: the storage after one sample.
fold_channel_f(storage, rx, f) ==
    LET acc     == Storage_take(storage)
        current == FoldLeft(f, acc, rx)
    IN  Storage_set(storage, current)

\* Signal::from_channel / Signal::fold_channel around the channel's receiver
NewChannelSignal(kind, initial, f) ==
    /\ chsig.kind = ""
    /\ chsig' = [NoChannelSignal EXCEPT
                    !.kind = kind, !.f = f, !.initial = initial,
                    !.storage = initial]
    /\ UNCHANGED <<graphVars, regs, handleVars, cellVars, id, hist, cur, chan, recv, dynVars, lockVars>>
    /\ NoTrace

Signal_from_channel(initial)    == NewChannelSignal("from_channel", initial, "")
Signal_fold_channel(initial, f) == NewChannelSignal("fold_channel", initial, f)

\* mpsc::Sender::send by the producer thread
Sender_send(v) ==
    /\ chan.total < MaxHist
    /\ chan' = [rx |-> Append(chan.rx, v), total |-> chan.total + 1]
    /\ UNCHANGED <<graphVars, regs, handleVars, cellVars, id, hist, cur, chsig, recv, dynVars, lockVars>>
    /\ NoTrace

\* Signal::sample for Signal::Shared(f): f().get()
Signal_sample ==
    /\ chsig.kind # ""
    /\ chsig.n < MaxHist
    /\ LET st == IF chsig.kind = "from_channel"
                 THEN from_channel_f(chsig.storage, chan.rx)
                 ELSE fold_channel_f(chsig.storage, chan.rx, chsig.f)
       IN  /\ chsig' = [chsig EXCEPT
                           !.storage = st,
                           !.n       = @ + 1,
                           !.before  = IF chsig.n = 0 THEN chsig.initial ELSE chsig.ret,
                           !.drained = chan.rx,
                           !.ret     = Storage_get(st),
                           !.left    = <<>>]
           /\ chan' = [chan EXCEPT !.rx = <<>>]
    /\ UNCHANGED <<graphVars, regs, handleVars, cellVars, id, hist, cur, recv, dynVars,
                   lockVars>>
    /\ NoTrace

\* ------------------------------------- constant, from_fn, mapped signals
\* What a signal is made from: a signal of sigdefs or a SignalShared.
DefRef(i)  == [k |-> "def", i |-> i]
CellRef(c) == [k |-> "cell", i |-> c]
NoRef      == [k |-> "", i |-> 0]

RECURSIVE sample(_)
RECURSIVE sample_with(_)
RECURSIVE map_f(_)

\* A mapped signal that keeps the value it computed when it was made.
map_f_cached(d) == ApplyMap(d.f, d.first)

\* The closure of Signal::map: move || this.sample_with(&f)
map_f(d) == ApplyMap(d.f, sample_with(d.src))

\* The Fn() -> T of a Dynamic signal: the closure of the program that
\* reads its Cell, or the closure Signal::map made.
Dynamic_f(d) == IF d.f = "get" THEN cellv ELSE map_f(d)

\* Signal::sample: the value returned.
sample(r) ==
    IF r.k = "cell" THEN SignalShared_sample(r.i)
    ELSE LET d == sigdefs[r.i] IN
         CASE d.kind = "Constant" -> d.val
           [] d.kind = "Dynamic"  -> Dynamic_f(d)

\* Signal::sample_with: the value the callback is given.
sample_with(r) ==
    IF r.k = "cell" THEN store[r.i]
    ELSE LET d == sigdefs[r.i] IN
         CASE d.kind = "Constant" -> d.val
           [] d.kind = "Dynamic"  -> Dynamic_f(d)

\* A new signal; first is what its source returned when it was made.
NewDef(kind, val, f, src) ==
    /\ Len(sigdefs) < MaxSigs
    /\ sigdefs' = Append(sigdefs,
                    [kind |-> kind, val |-> val, f |-> f, src |-> src,
                     first |-> IF src = NoRef THEN val ELSE sample(src)])
    /\ UNCHANGED <<graphVars, regs, handleVars, cellVars, id, hist, cur,
                   chanVars, cellv, obs, lockVars>>
    /\ NoTrace

\* Signal::constant
Signal_constant(val) == NewDef("Constant", val, "", NoRef)

\* Signal::from_fn(move || cloned.get())
Signal_from_fn == NewDef("Dynamic", 0, "get", NoRef)

\* Signal::map
Signal_map(src, f) ==
    /\ \/ src.k = "def"  /\ src.i \in 1..Len(sigdefs)
       \/ src.k = "cell" /\ src.i \in sigs
    /\ NewDef("Dynamic", 0, f, src)

\* n.set(v) on the Cell the from_fn closures read
Cell_set(v) ==
    /\ v # cellv
    /\ cellv' = v
    /\ UNCHANGED <<graphVars, regs, handleVars, cellVars, id, hist, cur,
                   chanVars, sigdefs, obs, lockVars>>
    /\ NoTrace

\* The program samples signal i of sigdefs, by value or by reference.
Sample(i, how) ==
    /\ i \in 1..Len(sigdefs)
    /\ obs.n < MaxSigs
    /\ obs' = [n |-> obs.n + 1, of |-> i, how |-> how,
               ret |-> IF how = "sample" THEN sample(DefRef(i))
                                         ELSE sample_with(DefRef(i))]
    /\ UNCHANGED <<graphVars, regs, handleVars, cellVars, id, hist, cur,
                   chanVars, sigdefs, cellv, lockVars>>
    /\ NoTrace


\* drop(stream): the program lets go of its Stream handle on n.
Drop_Stream(n) ==
    /\ n \in streams
    /\ streams' = streams \ {n}
    /\ UNCHANGED <<graphVars, regs, sinks, sigs, cellVars, id, hist, cur,
                   chanVars, dynVars, lockVars>>
    /\ NoTrace

\* drop(sink)
Drop_Sink(n) ==
    /\ n \in sinks
    /\ sinks' = sinks \ {n}
    /\ UNCHANGED <<graphVars, regs, streams, sigs, cellVars, id, hist, cur,
                   chanVars, dynVars, lockVars>>
    /\ NoTrace

\* --------------------------------------------- map / filter / filter_map
InitChain == InitWith(<<"int">>)

NextChain ==
    \/ \E s \in Node : \E v \in Payload(s) : Sink_send(s, v)
    \/ \E s \in Node : \E v1 \in Payload(s), v2 \in Payload(s) : Sink_feed(s, v1, v2)
    \/ \E n \in Node, f \in MapFns : Stream_map(n, f)
    \/ \E n \in Node, p \in Preds : Stream_filter(n, p)
    \/ \E n \in Node, f \in OptFns : Stream_filter_map(n, "opt", f, 0)
    \/ \E n \in Node : Drop_Stream(n)

SpecChain == InitChain /\ [][NextChain]_vars

\* The values of the calls the latest send made on registry n, in order.
RECURSIVE Column(_, _)
Column(seq, k) ==
    IF seq = <<>> THEN <<>> ELSE <<seq[1][k]>> \o Column(Tail(seq), k)

CallsOn(n) == Column(SelectSeq(calls, LAMBDA e : e[1] = n), 2)
SentOn(n)  == Column(SelectSeq(sent, LAMBDA e : e[1] = n), 2)

\* What a map / filter / filter_map stream must deliver for the events xs
\* of its parent: the accepted ones, transformed, in order.
RECURSIVE Through(_, _)
Through(m, xs) ==
    IF xs = <<>> THEN <<>>
    ELSE LET x == xs[1]
             y == CASE m.op = "filter" -> IF ApplyPred(m.g, x) THEN <<x>> ELSE <<>>
                    [] m.op = "filter_map" /\ m.f = "some" -> <<ApplyMap(m.g, x)>>
                    [] m.op = "filter_map" /\ m.f = "opt"  -> ApplyOpt(m.g, x)
         IN  y \o Through(m, Tail(xs))

Parent(n) == CHOOSE p \in made[n].inputs : TRUE

IsChainOp(m) ==
    \/ m.op = "filter"
    \/ m.op = "filter_map" /\ m.f \in {"some", "opt"}

\* n is derived from a sink's stream by map / filter / filter_map only.
RECURSIVE IsChain(_)
IsChain(n) ==
    \/ made[n].op = ""
    \/ IsChainOp(made[n]) /\ IsChain(Parent(n))

RECURSIVE Root(_)
Root(n) == IF made[n].op = "" THEN n ELSE Root(Parent(n))

RECURSIVE Depth(_)
Depth(n) == IF made[n].op = "" THEN 0 ELSE 1 + Depth(Parent(n))

\* The chain's functions applied, in combinator-chain order, to the values
\* sent into the chain's sink.
RECURSIVE Expect(_)
Expect(n) ==
    IF made[n].op = "" THEN SentOn(n) ELSE Through(made[n], Expect(Parent(n)))

\* C1: for every send (and every value of a feed), each live stream at the
\* end of a map / filter / filter_map chain is called exactly once per
\* accepted value and not at all for a rejected one, in send order, with
\* the chain's functions applied in chain order.
C1_ChainDelivery ==
    sent # <<>> =>
        \A n \in LiveNodes(regs) :
            (n <= nodes /\ IsChain(n)) => CallsOn(n) = Expect(n)

\* C1 witness: a feed of two values through a live chain of two
\* combinators, one value delivered and one filtered out.
C1_Witness ==
    \E n \in LiveNodes(regs) :
        /\ n <= nodes /\ IsChain(n) /\ Depth(n) = 2
        /\ made[n].op = "filter_map" /\ made[n].f = "some"
        /\ made[Parent(n)].op = "filter"
        /\ Len(sent) = 2
        /\ Len(CallsOn(n)) = 1

\* ------------------------------------------------------------------ merge
InitMerge == InitWith(<<"int", "int">>)

NextMerge ==
    \/ \E s \in Node : \E v \in Payload(s) : Sink_send(s, v)
    \/ \E s \in Node : \E v \in Payload(s) : Sink_feed(s, v, (v % MaxVal) + 1)
    \/ \E a \in Node, b \in Node : Stream_merge(a, b)
    \/ \E n \in Node : Drop_Stream(n)

SpecMerge == InitMerge /\ [][NextMerge]_vars

\* ----------------------------------------------------------------- switch
InitSwitch == InitWith(<<"stream", "int", "int">>)

NextSwitch ==
    \/ \E s \in Node : \E v \in Payload(s) : Sink_send(s, v)
    \/ \E n \in Node : (\A m \in Node : made[m].op # "switch") /\ Stream_switch(n)
    \/ \E n \in Node : Drop_Stream(n)

SpecSwitch == InitSwitch /\ [][NextSwitch]_vars

\* ------------------------------------------------------------------ split
InitSplit == InitWith(<<"sum">>)

NextSplit ==
    \/ \E s \in Node : \E v1 \in Payload(s), v2 \in Payload(s) : Sink_feed(s, v1, v2)
    \/ \E s \in Node : \E v \in Payload(s) : Sink_send(s, v)
    \/ \E n \in Node : Stream_split(n)
    \/ \E n \in Node : Drop_Stream(n)

SpecSplit == InitSplit /\ [][NextSplit]_vars

\* ------------------------------------------- hold and fold, one signal
InitSignal == InitWith(<<"int">>)

NextSignal ==
    \/ \E s \in Node : \E v \in Payload(s) : Sink_send(s, v)
    \/ \E s \in Node : \E v1 \in Payload(s), v2 \in Payload(s) : Sink_feed(s, v1, v2)
    \/ \E n \in Node, v \in {0} : cells = 0 /\ Stream_hold(n, v)
    \/ \E n \in Node, v \in {0}, p \in {"even"} : cells = 0 /\ Stream_hold_if(n, v, p)
    \/ \E n \in Node, v \in {1}, f \in FoldFns : cells = 0 /\ Stream_fold(n, v, f)
    \/ \E c \in Cell : Drop_Signal(c)

SpecSignal == InitSignal /\ [][NextSignal]_vars

\* ------------------------------------------------------- claims on switch
IsSwitch(o) == o <= nodes /\ made[o].op = "switch"

\* The subscriptions of switch o on inner streams, as <<registry, index>>.
InnerSubs(o) ==
    UNION {{<<n, i>> : i \in {j \in 1..Len(regs[n]) :
                                  /\ regs[n][j].kind = "switch_inner"
                                  /\ regs[n][j].w = o}} : n \in Node}

\* C2: with the switch output alive, the output fires exactly once for each
\* event of the inner stream delivered last and never for an event of an
\* inner stream delivered before it; at most one inner subscription holds
\* the current generation.
C2_SwitchForwardsLast ==
    \A o \in Node :
        IsSwitch(o) =>
            /\ Cardinality({p \in InnerSubs(o) :
                              regs[p[1]][p[2]].my_id = id[o]}) <= 1
            /\ (o \in LiveNodes(regs) /\ sent # <<>> /\ ty[sent[1][1]] = "int") =>
                   CallsOn(o) = IF cur[o] = NoNode THEN <<>> ELSE CallsOn(cur[o])

\* C2 witness: s1 = 2 then s2 = 3 were delivered, then an event fired on
\* s1, and nothing appeared on the live output.
C2_Witness ==
    \E o \in Node :
        /\ IsSwitch(o) /\ o \in LiveNodes(regs)
        /\ id[o] = 2 /\ cur[o] = 3
        /\ sent # <<>> /\ sent[1][1] = 2
        /\ CallsOn(2) # <<>>
        /\ CallsOn(o) = <<>>

\* -------------------------------------------------------- claims on merge
IsMerge(m) == m <= nodes /\ made[m].op = "merge"

\* m = a.merge(b) for the streams of two different sinks a, b.
IsSinkMerge(m) ==
    /\ IsMerge(m)
    /\ Cardinality(made[m].inputs) = 2
    /\ \A a \in made[m].inputs : made[a].op = ""

\* The closures of registry r that forward to registry m.
ClosuresFor(R, r, m) ==
    SelectSeq(R[r], LAMBDA cl : cl.w = m \/ cl.w2 = m)

\* C3: a live merge of two sink streams fires once for every value sent
\* into either sink, with that value, in send order.
C3_MergeForwardsAll ==
    sent # <<>> =>
        \A m \in LiveNodes(regs) :
            IsSinkMerge(m) =>
                CallsOn(m) =
                    Column(SelectSeq(sent, LAMBDA e : e[1] \in made[m].inputs), 2)

\* C3 witness: a feed of two different values into one input of a live
\* merge of two sinks.
C3_Witness ==
    \E m \in LiveNodes(regs) :
        /\ IsSinkMerge(m)
        /\ Len(sent) = 2 /\ sent[1][2] # sent[2][2]
        /\ Len(CallsOn(m)) = 2

\* C4: once a merged stream is dead, a send delivers nothing through it;
\* its closure on an input is removed by the first event on that input
\* and by nothing else (an event on a leaves the closure on b in place).
C4_MergePruning ==
    [][ sent' # <<>> =>
          \A m \in Node :
              (IsMerge(m) /\ m \notin LiveNodes(regs)) =>
                  /\ CallsOn(m)' = <<>>
                  /\ \A r \in Node :
                        IF CallsOn(r)' # <<>>
                        THEN ClosuresFor(regs', r, m) = <<>>
                        ELSE ClosuresFor(regs', r, m) = ClosuresFor(regs, r, m) ]_vars

\* C4 witness: the merge of sinks 1 and 2 is dead, an event was sent on
\* sink 1: the closure on 1 is gone, the closure on 2 is still there.
C4_Witness ==
    \E m \in Node :
        /\ IsSinkMerge(m) /\ m \notin LiveNodes(regs)
        /\ sent # <<>> /\ sent[1][1] = 1
        /\ ClosuresFor(regs, 1, m) = <<>>
        /\ ClosuresFor(regs, 2, m) # <<>>
        /\ CallsOn(m) = <<>>

\* -------------------------------------------------------- claims on split
\* The two outputs of one split, as <<s1, s2>>.
SplitPairs ==
    {p \in Node \X Node :
        /\ p[2] = p[1] + 1 /\ p[2] <= nodes
        /\ made[p[1]].op = "split" /\ made[p[1]].g = "type1"
        /\ made[p[2]].op = "split" /\ made[p[2]].g = "type2"}

\* The payloads of the events xs of variant t.
RECURSIVE Variant(_, _)
Variant(xs, t) ==
    IF xs = <<>> THEN <<>>
    ELSE (IF xs[1][1] = t THEN <<xs[1][2]>> ELSE <<>>) \o Variant(Tail(xs), t)

\* How often the latest send ran a closure of kind k on registry r.
Runs(r, k) == Len(SelectSeq(evals, LAMBDA e : e[1] = r /\ e[2] = k))

\* C5 as stated: once both outputs are dropped the shared closure
\* attempts no computation for any later input event.
C5_NoComputationAfterBothDropped ==
    \A p \in SplitPairs :
        (p[1] \notin LiveNodes(regs) /\ p[2] \notin LiveNodes(regs)) =>
            Runs(Parent(p[1]), "split") = 0

\* C5 amended: while an output is live it receives every event of its
\* variant and the shared closure stays registered, whatever arrives;
\* once both are dead nothing is delivered, the closure runs at most once
\* more, on the first later event, and that event removes it.
C5_SplitLiveness ==
    \A p \in SplitPairs :
        LET in   == Parent(p[1])
            live == {p[1], p[2]} \cap LiveNodes(regs)
        IN  /\ \A k \in {1, 2} :
                  (p[k] \in live /\ sent # <<>>) =>
                      CallsOn(p[k]) = Variant(CallsOn(in), k)
            /\ \A k \in {1, 2} :
                  p[k] \notin live => CallsOn(p[k]) = <<>>
            /\ live # {} => Len(ClosuresFor(regs, in, p[1])) = 1
            /\ (live # {} /\ sent # <<>>) =>
                  Runs(in, "split") = Len(CallsOn(in))
            /\ (live = {} /\ CallsOn(in) # <<>>) =>
                  /\ ClosuresFor(regs, in, p[1]) = <<>>
                  /\ Runs(in, "split") <= 1

\* C5 witness: s1 is dropped and s2 is held; a feed brought an event of
\* each variant; s2 got its event and the closure is still registered.
C5_Witness ==
    \E p \in SplitPairs :
        /\ p[1] \notin LiveNodes(regs) /\ p[2] \in LiveNodes(regs)
        /\ Len(sent) = 2 /\ sent[1][2][1] = 1 /\ sent[2][2][1] = 2
        /\ Len(CallsOn(p[2])) = 1
        /\ Len(ClosuresFor(regs, Parent(p[1]), p[1])) = 1

\* ------------------------------------------------ claims on hold and fold
\* The last event of xs that satisfies p, or initial if there is none.
RECURSIVE LastSat(_, _, _)
LastSat(p, initial, xs) ==
    IF xs = <<>> THEN initial
    ELSE IF ApplyPred(p, xs[Len(xs)]) THEN xs[Len(xs)]
    ELSE LastSat(p, initial, SubSeq(xs, 1, Len(xs) - 1))

\* The closures of registry r that write storage c.
WritersOf(r, c) ==
    SelectSeq(regs[r], LAMBDA cl : cl.kind \in {"hold_if", "fold"} /\ cl.c = c)

\* C6: a live fold signal samples to the left fold of f over the events
\* its stream has delivered, starting from initial.
C6_FoldIsLeftFold ==
    \A c \in sigs :
        sigmade[c].op = "fold" =>
            SignalShared_sample(c) =
                FoldLeft(sigmade[c].g, sigmade[c].initial, hist[c])

\* C6 witness: a live fold with the order-sensitive f over three events
\* that are not all equal.
C6_Witness ==
    \E c \in sigs :
        /\ sigmade[c].op = "fold" /\ sigmade[c].g = "shl"
        /\ Len(hist[c]) = 3 /\ hist[c][1] # hist[c][3]

\* C7: a live hold / hold_if signal samples to the last delivered event
\* that satisfied pred, or to initial; its subscription stays registered.
C7_HoldIsLastAccepted ==
    \A c \in sigs :
        sigmade[c].op = "hold_if" =>
            /\ SignalShared_sample(c) =
                   LastSat(sigmade[c].g, sigmade[c].initial, hist[c])
            /\ Len(WritersOf(sigsrc[c], c)) = 1

\* C7 witness: a hold_if whose last event failed pred after one passed.
C7_Witness ==
    \E c \in sigs :
        /\ sigmade[c].op = "hold_if" /\ sigmade[c].g = "even"
        /\ Len(hist[c]) = 2
        /\ ApplyPred("even", hist[c][1]) /\ ~ApplyPred("even", hist[c][2])

\* ------------------------------------------------- channel-fed signals
InitChannel == InitWith(<<>>)

NextChannel ==
    \/ \E v \in {0} : Signal_from_channel(v)
    \/ \E v \in {1}, f \in FoldFns : Signal_fold_channel(v, f)
    \/ \E v \in Val : Sender_send(v)
    \/ Signal_sample

SpecChannel == InitChannel /\ [][NextChannel]_vars

\* C8: one sample drains everything queued and returns the last item
\* (from_channel) or the left fold of the items onto the value the sample
\* before it returned (fold_channel); with nothing queued it returns that
\* value again.
C8_ChannelSample ==
    chsig.n > 0 =>
        /\ chsig.left = <<>>
        /\ chsig.ret =
              IF chsig.kind = "from_channel"
              THEN IF chsig.drained = <<>> THEN chsig.before
                   ELSE chsig.drained[Len(chsig.drained)]
              ELSE FoldLeft(chsig.f, chsig.before, chsig.drained)
        /\ chsig.drained = <<>> => chsig.ret = chsig.before

\* C8 witness: a fold_channel signal that drained items in an earlier
\* sample was sampled again with nothing queued.
C8_Witness ==
    /\ chsig.kind = "fold_channel" /\ chsig.f = "shl"
    /\ chsig.n >= 2
    /\ chsig.drained = <<>>
    /\ chsig.ret # chsig.initial

\* --------------------------------------------------------------- snapshot
\* Sink 1 feeds the signals, sink 2 is the trigger; the outputs of the
\* snapshots can be held in signals of their own.
InitSnapshot == InitWith(<<"int", "int">>)

NextSnapshot ==
    \/ \E s \in Node : \E v \in Payload(s) : Sink_send(s, v)
    \/ \E s \in Node : \E v \in Payload(s) : Sink_feed(s, v, (v % MaxVal) + 1)
    \/ \E v \in {0} : cells = 0 /\ Stream_hold(1, v)
    \/ \E n \in Node : ty[n] = "pair" /\ Stream_hold(n, <<0, 0>>)
    \/ \E c \in Cell : sigsrc[c] = 1 /\ Signal_snapshot(c, 2, "pair")

SpecSnapshot == InitSnapshot /\ [][NextSnapshot]_vars

IsSnapshot(o) ==
    o <= nodes /\ made[o].op = "filter_map" /\ made[o].f = "some_sample_with"

\* C9: a live snapshot stream fires exactly once per trigger event e, with
\* f(v, e) for the value v the signal has when e is processed; a later
\* update of the signal fires nothing and leaves an output that was held
\* as it is.
C9_SnapshotAtFireTime ==
    [][ sent' # <<>> =>
          \A o \in LiveNodes(regs) :
              IsSnapshot(o) =>
                  LET es == CallsOn(Parent(o))'
                      v  == store[made[o].c]
                  IN  /\ CallsOn(o)' =
                             [i \in 1..Len(es) |-> ApplySnap(made[o].g, v, es[i])]
                      /\ \A h \in sigs :
                            sigsrc[h] = o =>
                                store'[h] = IF es = <<>> THEN store[h]
                                            ELSE ApplySnap(made[o].g, v, es[Len(es)])
      ]_vars

\* C9 witness: the output f(v, e) of a trigger event is held, and the
\* signal has since been updated to another value.
C9_Witness ==
    \E o \in LiveNodes(regs), h \in sigs :
        /\ IsSnapshot(o) /\ sigsrc[h] = o
        /\ sent # <<>> /\ sent[1][1] = 1
        /\ store[h] # <<0, 0>>
        /\ store[h][1] # store[made[o].c]

\* ------------------------------------------------- chains of combinators
\* One sink of each payload type.  Every combinator is applied to the end
\* of a chain (a stream nothing was derived from yet), so the program
\* builds chains, and drops whatever handles it likes.
InitKeep == InitWith(<<"int", "sum", "stream">>)

\* The streams S was derived from, S included.
RECURSIVE UpChain(_)
UpChain(S) ==
    LET T == S \cup UNION {made[n].inputs : n \in S}
    IN  IF T = S THEN S ELSE UpChain(T)

IsEnd(n) ==
    /\ n \in Held
    /\ \A m \in 1..nodes : n \notin made[m].inputs
    /\ \A c \in 1..cells : sigsrc[c] # n
    /\ \/ made[n].op = "" /\ \A m \in 1..nodes : made[m].op = ""
       \/ made[n].op # "" /\ \A m \in 1..nodes : 
                \/ made[m].op = ""
                \/ m \in UpChain({n})
                \/ made[m].inputs = made[n].inputs

NextKeep ==
    \/ \E s \in Node : \E v \in Payload(s) :
          /\ ty[s] = "stream" => v.cbs \in sinks
          /\ \A c \in Cell : Len(hist[c]) < MaxHist - 1
          /\ Sink_send(s, v)
    \/ \E n \in Node : IsEnd(n) /\ Stream_map(n, "inc")
    \/ \E n \in Node : IsEnd(n) /\ Stream_filter(n, "even")
    \/ \E n \in Node : IsEnd(n) /\ Stream_filter_map(n, "opt", "half", 0)
    \/ \E n \in Node : IsEnd(n) /\ n > 3 /\ Stream_merge(n, 1)
    \/ \E n \in Node : IsEnd(n) /\ Stream_map_n(n, "dup")
    \/ \E n \in Node : IsEnd(n) /\ Stream_split(n)
    \/ \E n \in Node : IsEnd(n) /\ Stream_switch(n)
    \/ \E n \in Node : IsEnd(n) /\ n > 3 /\ Stream_hold(n, 0)
    \/ \E n \in Node : IsEnd(n) /\ n > 3 /\ Stream_hold_if(n, 0, "even")
    \/ \E n \in Node : IsEnd(n) /\ n > 3 /\ Stream_fold(n, 1, "add")
    \/ \E n \in Node : Drop_Stream(n)
    \/ \E c \in Cell : Drop_Signal(c)

SpecKeep == InitKeep /\ [][NextKeep]_vars

\* The streams whose handle, or whose signal's handle, the program holds.
Ends == streams \cup {sigsrc[c] : c \in sigs}

RECURSIVE Flatten(_)
Flatten(xss) == IF xss = <<>> THEN <<>> ELSE xss[1] \o Flatten(Tail(xss))

\* What stream q must deliver for the events its inputs delivered, for the
\* combinators with one input.
Hop(q) ==
    LET xs == CallsOn(Parent(q)) IN
    CASE IsChainOp(made[q])    -> Through(made[q], xs)
      [] made[q].op = "map_n"  ->
            Flatten([i \in 1..Len(xs) |-> ApplyMapN(made[q].g, xs[i])])
      [] made[q].op = "split"  ->
            Variant(xs, IF made[q].g = "type1" THEN 1 ELSE 2)
      [] OTHER                 -> CallsOn(q)

\* C10: while the handle of the last stream or signal of a chain is held,
\* every registry up the chain is alive, every subscription up the chain
\* is still registered, and each stream of the chain delivers what its
\* combinator makes of its input's events, whatever handles in between
\* were dropped.
C10_ChainKeptAlive ==
    /\ \A q \in UpChain(Ends) :
          /\ q \in LiveNodes(regs)
          /\ \A p \in made[q].inputs : ClosuresFor(regs, p, q) # <<>>
          /\ made[q].op \notin {"", "merge", "switch"} => CallsOn(q) = Hop(q)
          /\ made[q].op = "merge" =>
                \A p \in made[q].inputs :
                    \A i \in 1..Len(CallsOn(p)) :
                        \E j \in 1..Len(CallsOn(q)) : CallsOn(q)[j] = CallsOn(p)[i]
    /\ \A c \in sigs :
          sigsrc[c] # NoNode => WritersOf(sigsrc[c], c) # <<>>

\* C10 witness: a signal at the end of a chain of two combinators is the
\* only handle left, and an event sent to the sink has reached its stream.
C10_Witness ==
    \E c \in sigs :
        /\ streams = {}
        /\ Depth(sigsrc[c]) = 2
        /\ CallsOn(sigsrc[c]) # <<>>
        /\ hist[c] # <<>>

\* ---------------------------------------------------------- lazy pruning
InitPrune == InitWith(<<"int">>)

NextPrune ==
    \/ \E s \in Node : \E v \in Payload(s) : Sink_send(s, v)
    \/ \E s \in Node : \E v \in Payload(s) : Sink_feed(s, v, (v % MaxVal) + 1)
    \/ \E n \in Node : Stream_map(n, "inc")
    \/ \E n \in Node : Stream_filter(n, "even")
    \/ \E n \in Node : Stream_filter_map(n, "opt", "half", 0)
    \/ \E n \in Node : Stream_map_n(n, "dup")
    \/ \E n \in Node : Drop_Stream(n)

SpecPrune == InitPrune /\ [][NextPrune]_vars

IsPruned(q) ==
    q <= nodes /\ made[q].op \in {"filter", "filter_map", "map_n"}

\* The closures of registry r whose output registry is alive.
LiveClosures(r) == SelectSeq(regs[r], LAMBDA cl : cl.w \in LiveNodes(regs))

\* How many closure bodies (user functions) the latest send ran on r.
RunsOn(r) == Len(SelectSeq(evals, LAMBDA e : e[1] = r))

\* C11: the closure of a map / filter / filter_map / map_n stream leaves
\* its parent's registry only in a call of that registry; once the stream
\* is dead, the parent's next call removes the closure, delivers nothing
\* to the stream and runs no user function for it: the functions that ran
\* on the parent are those of its live closures, once per call.
C11_LazyPruning ==
    [][ \A q \in Node :
          IsPruned(q) =>
              LET p == Parent(q) IN
              /\ CallsOn(p)' = <<>> =>
                    ClosuresFor(regs', p, q) = ClosuresFor(regs, p, q)
              /\ (CallsOn(p)' # <<>> /\ q \notin LiveNodes(regs)) =>
                    /\ ClosuresFor(regs', p, q) = <<>>
                    /\ CallsOn(q)' = <<>>
                    /\ RunsOn(p)' = Len(CallsOn(p)') * Len(LiveClosures(p)) ]_vars

\* C11 witness: a dead map_n stream and a live stream on the same parent;
\* the parent was called twice, the dead stream's closure is gone, and
\* only the live stream's function ran, once per call.
C11_Witness ==
    \E q \in Node, r \in LiveNodes(regs) :
        /\ IsPruned(q) /\ IsPruned(r) /\ q # r
        /\ made[q].op = "map_n" /\ q \notin LiveNodes(regs)
        /\ Parent(q) = Parent(r)
        /\ Len(CallsOn(Parent(q))) = 2
        /\ ClosuresFor(regs, Parent(q), q) = <<>>
        /\ RunsOn(Parent(q)) = 2

\* ------------------------------------------------------ order of a walk
InitWalk == InitWith(<<"int">>)

NextWalk ==
    \/ \E s \in Node : \E v \in Payload(s) : Sink_send(s, v)
    \/ \E s \in Node : \E v \in Payload(s) : Sink_feed(s, v, (v % MaxVal) + 1)
    \/ \E n \in Node : Stream_map(n, "inc")
    \/ \E n \in Node : Stream_filter(n, "even")
    \/ \E n \in Node : Stream_map_n(n, "dup")
    \/ \E n \in Node, m \in Node : Stream_merge(n, m)
    \/ \E n \in Node : Drop_Stream(n)

SpecWalk == InitWalk /\ [][NextWalk]_vars

\* What the closure cl hands to its output registry for the event v.
Handed(cl, v) ==
    CASE cl.kind = "filter"     -> IF ApplyPred(cl.g, v) THEN <<v>> ELSE <<>>
      [] cl.kind = "filter_map" ->
            IF cl.f = "some" THEN <<ApplyMap(cl.g, v)>> ELSE ApplyOpt(cl.g, v)
      [] cl.kind = "merge"      -> <<v>>
      [] cl.kind = "map_n"      -> ApplyMapN(cl.g, v)

\* The depth-first walk from registry n with the event v: n itself, then
\* for each closure of n in registration order the whole walk from its
\* output for each value it hands over, before the next closure.
RECURSIVE Walk(_, _)
Walk(n, v) ==
    <<<<n, v>>>> \o
    Flatten([i \in 1..Len(regs[n]) |->
        LET cl == regs[n][i] IN
        IF cl.w \notin LiveNodes(regs) THEN <<>>
        ELSE LET xs == Handed(cl, v)
             IN  Flatten([j \in 1..Len(xs) |-> Walk(cl.w, xs[j])])])

\* C12: when a send or feed returns, the calls it made are exactly the
\* depth-first walk of the live graph below the sink, event by event:
\* every live registry below has been called, the closures of a registry
\* ran in registration order, and everything an earlier closure caused
\* came before the next closure of the same registry.
C12_DepthFirst ==
    calls = Flatten([i \in 1..Len(sent) |-> Walk(sent[i][1], sent[i][2])])

\* C12 witness: the sink feeds a map and, registered after it, a merge of
\* the sink with that map; one send called the sink, the map, the merge
\* with the mapped value and only then the merge with the value sent.
C12_Witness ==
    \E a \in Node, m \in Node :
        /\ made[a].op = "filter_map" /\ made[m].op = "merge"
        /\ Len(sent) = 1
        /\ calls = << <<1, sent[1][2]>>, <<a, ApplyMap(made[a].g, sent[1][2])>>,
                      <<m, ApplyMap(made[a].g, sent[1][2])>>, <<m, sent[1][2]>> >>

\* ------------------------------------------------ shape of the graph
\* The live registries the closures of registry n forward to; an inner
\* subscription of a switch forwards while its generation is the current one.
Succ(n) ==
    {w \in LiveNodes(regs) :
        \E i \in 1..Len(regs[n]) :
            /\ regs[n][i].w = w \/ regs[n][i].w2 = w
            /\ regs[n][i].kind = "switch_inner" => regs[n][i].my_id = id[w]}

\* The registries reached from those of S in one step or more.
RECURSIVE Below(_)
Below(S) ==
    LET T == S \cup UNION {Succ(n) : n \in S}
    IN  IF T = S THEN S ELSE Below(T)

Reach(n) == Below(Succ(n))

InitCycle == InitWith(<<"stream", "int">>)

\* A Callbacks::call on a registry that reaches itself calls itself again
\* before it returns, so a send that can get to such a registry has no
\* state after it; the sends below are the ones that return.
NextCycle ==
    \/ \E s \in Node : \E v \in Payload(s) :
          /\ \A n \in {s} \cup Reach(s) : n \notin Reach(n)
          /\ Sink_send(s, v)
    \/ \E n \in Node : (\A m \in Node : made[m].op # "switch") /\ Stream_switch(n)
    \/ \E n \in Node, m \in Node : Stream_merge(n, m)
    \/ \E n \in Node : Stream_map(n, "inc")
    \/ \E n \in Node : Drop_Stream(n)

SpecCycle == InitCycle /\ [][NextCycle]_vars

\* C13: no registry reaches itself, directly or through other registries,
\* by the closures registered on registries.
C13_Acyclic == \A n \in Node : n \notin Reach(n)

\* --------------------------------------------------------- mapped signals
InitMapped == InitWith(<<"int">>)

NextMapped ==
    \/ \E v \in Val : sigs # {} /\ Len(hist[1]) < MaxHist - 2 /\ Sink_send(1, v)
    \/ cells = 0 /\ Stream_hold(1, 0)
    \/ \E v \in Val : Signal_constant(v)
    \/ Signal_from_fn
    \/ \E i \in 1..MaxSigs : Signal_map(DefRef(i), "dbl")
    \/ \E c \in Cell : Signal_map(CellRef(c), "dbl")
    \/ \E v \in Val : Cell_set(v)
    \/ \E i \in 1..MaxSigs, how \in {"sample", "sample_with"} : Sample(i, how)

SpecMapped == InitMapped /\ [][NextMapped]_vars

IsMapped(d) == d.kind = "Dynamic" /\ d.f \in MapFns

\* C14: every sample of a mapped signal returns f of what a sample of its
\* source returns at that moment; every sample of a constant signal
\* returns the value it was made with; and sample and sample_with of any
\* signal see the same value.
C14_MapNotCached ==
    /\ [][ obs'.n # obs.n =>
              LET d == sigdefs[obs'.of] IN
              /\ IsMapped(d) => obs'.ret = ApplyMap(d.f, sample(d.src))
              /\ d.kind = "Constant" => obs'.ret = d.val ]_vars
    /\ [](\A i \in 1..Len(sigdefs) : sample(DefRef(i)) = sample_with(DefRef(i)))

\* C14 witness: a mapped signal whose source returned something else when
\* the map was made was sampled, and gave f of the source's value now.
C14_Witness ==
    /\ obs.of # 0
    /\ IsMapped(sigdefs[obs.of])
    /\ sample(sigdefs[obs.of].src) # sigdefs[obs.of].first
    /\ obs.ret = ApplyMap(sigdefs[obs.of].f, sample(sigdefs[obs.of].src))

\* ------------------------------------------------------ Callbacks::call
IsPrefix(xs, ys) == Len(xs) <= Len(ys) /\ SubSeq(ys, 1, Len(xs)) = xs

\* What the body of the closure cl records when it runs.
Tag(cl) == IF cl.kind = "filter_map" THEN cl.f ELSE cl.kind

RECURSIVE Times(_, _)
Times(k, xs) == IF k = 0 THEN <<>> ELSE xs \o Times(k - 1, xs)

\* The closure bodies the latest send ran on registry r, in order.
RanOn(r) == Column(SelectSeq(evals, LAMBDA e : e[1] = r), 2)

\* C15: a step that does not call registry r removes nothing from it and
\* adds only at its end; a call of r runs the entries r held when the
\* call began, each once, in registration order (seen for the entries
\* whose output is alive, the others return false before their body), and
\* leaves exactly the entries that returned true, in their order.
C15_CallKeepsOrder ==
    [][ \A r \in Node :
          LET live == LiveClosures(r) IN
          /\ CallsOn(r)' = <<>> => IsPrefix(regs[r], regs'[r])
          /\ CallsOn(r)' # <<>> =>
                /\ regs'[r] = live
                /\ RanOn(r)' =
                      [i \in 1..Len(live) |-> Tag(live[i])] \o
                      Times(Len(CallsOn(r)') - 1,
                            [i \in 1..Len(live) |-> Tag(live[i])]) ]_vars

\* C15 witness: a registry holding the closure of a dead stream and, after
\* it, the closure of a live one was called twice by a feed: the live
\* closure's body ran once per call and it alone is left.
C15_Witness ==
    \E q \in Node :
        LET p == Parent(q) IN
        /\ IsPruned(q) /\ q \notin LiveNodes(regs)
        /\ Len(CallsOn(p)) = 2
        /\ Len(regs[p]) = 1 /\ regs[p][1].w > q
        /\ regs[p][1].w \in LiveNodes(regs)
        /\ RanOn(p) = <<Tag(regs[p][1]), Tag(regs[p][1])>>

\* ------------------------------------------- the generations of a switch
\* The generations the inner subscriptions of switch o captured, one per
\* subscription.
Captures(R, o) ==
    LET subs == UNION {{<<n, i>> : i \in {j \in 1..Len(R[n]) :
                                     /\ R[n][j].kind = "switch_inner"
                                     /\ R[n][j].w = o}} : n \in Node}
    IN  [g \in 0..MaxGen |-> Cardinality({p \in subs : R[p[1]][p[2]].my_id = g})]

\* C16: the counter of a switch is 0 until the outer stream delivers an
\* inner stream; each inner stream delivered while the output is alive
\* raises it by one and registers one subscription holding the new value
\* on that inner stream; one delivered after the output is dead changes
\* neither the counter nor the inner stream's registry and removes the
\* outer closure; nothing else changes the counter; and no two inner
\* subscriptions hold the same generation.
C16_GenerationCounter ==
    /\ [][ \A o \in Node :
             IF ~IsSwitch(o) THEN id'[o] = 0
             ELSE LET outer == Parent(o)
                      k     == Len(CallsOn(outer)')
                  IN  IF k = 0 THEN id'[o] = id[o]
                      ELSE IF o \in LiveNodes(regs)
                      THEN /\ id'[o] = id[o] + k
                           /\ Captures(regs', o)[id'[o]] = 1
                           /\ regs'[sent'[1][2].cbs][Len(regs'[sent'[1][2].cbs])] =
                                 Closure("switch_inner", o, 0, "", "", 0, id'[o])
                      ELSE /\ id'[o] = id[o]
                           /\ Captures(regs', o) = Captures(regs, o)
                           /\ regs'[sent'[1][2].cbs] = regs[sent'[1][2].cbs]
                           /\ ClosuresFor(regs', outer, o) = <<>> ]_vars
    /\ [](\A o \in Node : \A g \in 0..MaxGen :
              /\ Captures(regs, o)[g] <= 1
              /\ Captures(regs, o)[g] = 1 => (g >= 1 /\ g <= id[o]))

\* C16 witness: the switch has received two inner streams while alive and
\* a third after its output was dropped: the counter stands at 2 and the
\* outer closure is gone.
C16_Witness ==
    \E o \in Node :
        /\ IsSwitch(o) /\ o \notin LiveNodes(regs)
        /\ id[o] = 2
        /\ CallsOn(Parent(o)) # <<>>
        /\ ClosuresFor(regs, Parent(o), o) = <<>>

\* ------------------------------------------------------------------ map_n
InitMapN == InitWith(<<"int">>)

NextMapN ==
    \/ \E s \in Node : \E v \in Payload(s) : Sink_send(s, v)
    \/ \E s \in Node : \E v \in Payload(s) : Sink_feed(s, v, (v % MaxVal) + 1)
    \/ \E n \in Node, f \in {"dup", "one", "none"} : Stream_map_n(n, f)
    \/ \E n \in Node : Drop_Stream(n)

SpecMapN == InitMapN /\ [][NextMapN]_vars

IsMapN(o) == o <= nodes /\ made[o].op = "map_n"

\* C17: a live map_n stream receives, for each event of its input, the
\* values f sends, in the order f sends them, each send walking the
\* graph below the output before f's next send; and once the output is
\* dead a call of the input runs f for none of its events.
C17_MapNSends ==
    /\ [](\A o \in LiveNodes(regs) :
            IsMapN(o) =>
                LET xs == CallsOn(Parent(o)) IN
                /\ CallsOn(o) =
                      Flatten([i \in 1..Len(xs) |-> ApplyMapN(made[o].g, xs[i])])
                /\ calls = Flatten([i \in 1..Len(sent) |->
                                        Walk(sent[i][1], sent[i][2])]))
    /\ [][ \A o \in Node :
             (IsMapN(o) /\ o \notin LiveNodes(regs)) =>
                 /\ CallsOn(o)' = <<>>
                 /\ RunsOn(Parent(o))' =
                       Len(CallsOn(Parent(o))') * Len(LiveClosures(Parent(o))) ]_vars

\* C17 witness: f sends v and v + 1 for the event v, and the output has
\* a live stream below it: the first send went all the way down before
\* the second was made.
C17_Witness ==
    \E o \in LiveNodes(regs), c \in LiveNodes(regs) :
        /\ IsMapN(o) /\ made[o].g = "dup" /\ made[o].inputs = {1}
        /\ IsMapN(c) /\ made[c].g = "one" /\ made[c].inputs = {o}
        /\ Len(sent) = 1
        /\ calls = << <<1, sent[1][2]>>,
                      <<o, sent[1][2]>>, <<c, sent[1][2]>>,
                      <<o, sent[1][2] + 1>>, <<c, sent[1][2] + 1>> >>

\* ------------------------------------------- the lock of a shared signal
restVars == <<graphVars, regs, handleVars, cellVars, id, traceVars, hist, cur,
              chanVars, dynVars>>

\* The user functions that sample the very signal they are passed to.
SelfFns == {"self"}

\* Stream::fold / Stream::hold_if make the Arc<RwLock<T>>; the program
\* keeps the SignalShared and hands clones of the Arc to the other threads.
Shared_new(op, f, initial) ==
    /\ rwl.op = ""
    /\ rwl' = [NoLock EXCEPT !.op = op, !.f = f, !.data = Whole(initial)]
    /\ upd' = [upd EXCEPT !.pre = Whole(initial), !.post = Whole(initial)]
    /\ UNCHANGED <<thr, restVars>>

\* Where a thread goes on when the closure of the signal returns: back
\* into the sample_with callback that sent the event, or out of send.
Returned(t) ==
    IF t \in rwl.r THEN [thr[t] EXCEPT !.pc = "read_unlock"]
                   ELSE Idle

\* Sink::send on the propagation thread calls the closure of the signal.
Closure_begin(arg) ==
    /\ rwl.op # ""
    /\ thr[PropThread].pc = "idle"
    /\ upd.n < MaxHist
    /\ thr' = [thr EXCEPT ![PropThread] =
                 [@ EXCEPT !.pc  = IF rwl.op = "fold" THEN "write" ELSE "pred",
                           !.how = "send", !.arg = arg]]
    /\ UNCHANGED <<rwl, upd, restVars>>

\* hold_if: `pred(&arg)`, before the write lock is asked for.  The pred
\* "self" samples the signal and passes the events that differ from it.
hold_if_pred(t) ==
    /\ thr[t].pc = "pred"
    /\ rwl.f \in SelfFns => rwl.w = {}
    /\ LET pass == IF rwl.f \in SelfFns THEN Whole(thr[t].arg) # rwl.data
                                        ELSE ApplyPred(rwl.f, thr[t].arg)
       IN  thr' = [thr EXCEPT ![t] = IF pass THEN [@ EXCEPT !.pc = "write"]
                                             ELSE Returned(t)]
    /\ UNCHANGED <<rwl, upd, restVars>>

\* `st.write().unwrap()`: waits until no thread holds the lock; panics on
\* a poisoned lock.
write_lock(t) ==
    /\ thr[t].pc = "write"
    /\ t \notin rwl.r
    /\ rwl.w = {} /\ rwl.r = {}
    /\ IF rwl.poisoned
       THEN /\ thr' = [thr EXCEPT ![t] = [@ EXCEPT !.pc = "panicked"]]
            /\ UNCHANGED <<rwl, upd>>
       ELSE /\ rwl' = [rwl EXCEPT !.w = {t}]
            /\ thr' = [thr EXCEPT ![t] =
                         [@ EXCEPT !.pc = IF rwl.op = "fold" THEN "ptr_read"
                                                             ELSE "assign"]]
            /\ upd' = [upd EXCEPT
                         !.pre  = rwl.data,
                         !.post = IF rwl.op # "fold" THEN Whole(thr[t].arg)
                                  ELSE IF rwl.f \in SelfFns THEN rwl.data
                                  ELSE Whole(ApplyFold(rwl.f, rwl.data.v, thr[t].arg))]
    /\ UNCHANGED restVars

\* `st.write()` by a thread that holds the read lock of the same RwLock:
\* std::sync::RwLock either never returns or panics.
write_lock_held(t) ==
    /\ thr[t].pc = "write"
    /\ t \in rwl.r
    /\ \/ /\ thr' = [thr EXCEPT ![t] = [@ EXCEPT !.pc = "blocked"]]
          /\ UNCHANGED rwl
       \/ /\ thr' = [thr EXCEPT ![t] = [@ EXCEPT !.pc = "panicked"]]
          /\ rwl' = [rwl EXCEPT !.r = @ \ {t}]
    /\ upd' = [upd EXCEPT !.reentered = TRUE]
    /\ UNCHANGED restVars

\* fold: `let old = ptr::read(acc)`
fold_ptr_read(t) ==
    /\ thr[t].pc = "ptr_read"
    /\ thr' = [thr EXCEPT ![t] = [@ EXCEPT !.pc = "f", !.old = rwl.data]]
    /\ rwl' = [rwl EXCEPT !.data = MovedOut(@.v)]
    /\ UNCHANGED <<upd, restVars>>

\* fold: `let new = f(old, arg)`, under the write lock.  An f that samples
\* the signal asks for the read lock of the RwLock its own thread holds
\* for writing: std::sync::RwLock either never returns or panics, and the
\* panic drops the write guard, which poisons the lock.
fold_f(t) ==
    /\ thr[t].pc = "f"
    /\ IF rwl.f \in SelfFns
       THEN \/ /\ thr' = [thr EXCEPT ![t] = [@ EXCEPT !.pc = "blocked"]]
               /\ UNCHANGED rwl
            \/ /\ thr' = [thr EXCEPT ![t] = [@ EXCEPT !.pc = "panicked"]]
               /\ rwl' = [rwl EXCEPT !.w = {}, !.poisoned = TRUE]
       ELSE /\ thr' = [thr EXCEPT ![t] =
                         [@ EXCEPT !.pc  = "ptr_write",
                                   !.new = Whole(ApplyFold(rwl.f, thr[t].old.v,
                                                              thr[t].arg))]]
            /\ UNCHANGED rwl
    /\ UNCHANGED <<upd, restVars>>

\* fold: `ptr::write(acc, new)`
fold_ptr_write(t) ==
    /\ thr[t].pc = "ptr_write"
    /\ rwl' = [rwl EXCEPT !.data = thr[t].new]
    /\ thr' = [thr EXCEPT ![t] = [@ EXCEPT !.pc = "unlock"]]
    /\ UNCHANGED <<upd, restVars>>

\* hold_if: `*guard = arg.into_owned()`: the old value is dropped, then the
\* new one is moved in.
hold_if_assign(t) ==
    /\ thr[t].pc \in {"assign", "assign2"}
    /\ IF thr[t].pc = "assign"
       THEN /\ rwl' = [rwl EXCEPT !.data = Partial(@.v)]
            /\ thr' = [thr EXCEPT ![t] = [@ EXCEPT !.pc = "assign2"]]
       ELSE /\ rwl' = [rwl EXCEPT !.data = Whole(thr[t].arg)]
            /\ thr' = [thr EXCEPT ![t] = [@ EXCEPT !.pc = "unlock"]]
    /\ UNCHANGED <<upd, restVars>>

\* The write guard goes out of scope at the end of the closure.
write_unlock(t) ==
    /\ thr[t].pc = "unlock"
    /\ rwl' = [rwl EXCEPT !.w = {}]
    /\ thr' = [thr EXCEPT ![t] = Returned(t)]
    /\ upd' = [upd EXCEPT !.n = @ + 1]
    /\ UNCHANGED restVars

\* A thread calls sample or sample_with(cb) on its SignalShared.
Sample_begin(t, how, cb) ==
    /\ rwl.op # ""
    /\ thr[t].pc = "idle"
    /\ upd.samples < MaxSamples
    /\ thr' = [thr EXCEPT ![t] = [@ EXCEPT !.pc = "read", !.how = how, !.cb = cb]]
    /\ upd' = [upd EXCEPT !.samples = @ + 1]
    /\ UNCHANGED <<rwl, restVars>>

\* A read_lock that does not wait for the writer.
read_lock_racy(t) ==
    /\ thr[t].pc = "read"
    /\ IF rwl.poisoned
       THEN /\ thr' = [thr EXCEPT ![t] = [@ EXCEPT !.pc = "panicked"]]
            /\ UNCHANGED rwl
       ELSE /\ rwl' = [rwl EXCEPT !.r = @ \cup {t}]
            /\ thr' = [thr EXCEPT ![t] = [@ EXCEPT !.pc = "deref"]]
    /\ UNCHANGED <<upd, restVars>>

\* `self.0.read().unwrap()`: waits while a thread holds the write lock;
\* panics on a poisoned lock.
read_lock(t) ==
    /\ thr[t].pc = "read"
    /\ rwl.w = {}
    /\ IF rwl.poisoned
       THEN /\ thr' = [thr EXCEPT ![t] = [@ EXCEPT !.pc = "panicked"]]
            /\ UNCHANGED rwl
       ELSE /\ rwl' = [rwl EXCEPT !.r = @ \cup {t}]
            /\ thr' = [thr EXCEPT ![t] = [@ EXCEPT !.pc = "deref"]]
    /\ UNCHANGED <<upd, restVars>>

\* sample: `.clone()` of the value behind the read guard; sample_with:
\* `cb(Cow::Borrowed(..))`.  The cb "send" sends an event to the sink the
\* signal is fed from, which calls the closure of the signal.
SignalShared_deref(t) ==
    /\ thr[t].pc = "deref"
    /\ IF thr[t].how = "sample_with" /\ thr[t].cb = "send"
       THEN \E arg \in Val :
              thr' = [thr EXCEPT ![t] =
                        [@ EXCEPT !.pc  = IF rwl.op = "fold" THEN "write" ELSE "pred",
                                  !.arg = arg]]
       ELSE thr' = [thr EXCEPT ![t] = [@ EXCEPT !.pc = "read_unlock", !.ret = rwl.data]]
    /\ UNCHANGED <<rwl, upd, restVars>>

\* The read guard goes out of scope.
read_unlock(t) ==
    /\ thr[t].pc = "read_unlock"
    /\ rwl' = [rwl EXCEPT !.r = @ \ {t}]
    /\ thr' = [thr EXCEPT ![t] = Idle]
    /\ UNCHANGED <<upd, restVars>>

InitLock == InitWith(<<"int">>)

NextLock ==
    \/ \E f \in FoldFns \cup SelfFns : Shared_new("fold", f, 1)
    \/ \E p \in {"even"} \cup SelfFns : Shared_new("hold_if", p, 0)
    \/ \E arg \in Val : Closure_begin(arg)
    \/ \E t \in Thread : hold_if_pred(t)
    \/ \E t \in Thread : write_lock(t)
    \/ \E t \in Thread : write_lock_held(t)
    \/ \E t \in Thread : fold_ptr_read(t)
    \/ \E t \in Thread : fold_f(t)
    \/ \E t \in Thread : fold_ptr_write(t)
    \/ \E t \in Thread : hold_if_assign(t)
    \/ \E t \in Thread : write_unlock(t)
    \/ \E t \in Thread : Sample_begin(t, "sample", "")
    \/ \E t \in Thread : Sample_begin(t, "sample_with", "id")
    \/ Sample_begin(PropThread, "sample_with", "send")
    \/ \E t \in Thread : read_lock(t)
    \/ \E t \in Thread : SignalShared_deref(t)
    \/ \E t \in Thread : read_unlock(t)

SpecLock == InitLock /\ [][NextLock]_vars

\* C18: whatever a sample or sample_with reads behind the read guard is a
\* whole value, the one before or the one after the latest update of the
\* storage: never a half assigned value, never the accumulator fold moved
\* out to f.
C18_NoTornRead ==
    [][ \A t \in Thread :
          (thr[t].pc = "deref" /\ thr'[t].pc = "read_unlock") =>
              /\ thr'[t].ret.state = "whole"
              /\ thr'[t].ret \in {upd.pre, upd.post} ]_vars

\* C18 witness: after an update of a fold, the propagation thread is
\* waiting for the write lock with the next event while one reader has
\* read the value behind its read guard and another is about to.
C18_Witness ==
    \E t \in Thread, u \in Thread :
        /\ t # PropThread /\ u # PropThread /\ t # u
        /\ rwl.op = "fold" /\ upd.n >= 1 /\ upd.pre # upd.post
        /\ thr[PropThread].pc = "write"
        /\ thr[t].pc = "deref"
        /\ thr[u].pc = "read_unlock" /\ thr[u].ret = upd.post

\* The steps thread t takes by itself once it is inside a send, a sample
\* or a sample_with.
Step(t) ==
    \/ hold_if_pred(t) \/ write_lock(t) \/ write_lock_held(t)
    \/ fold_ptr_read(t) \/ fold_f(t) \/ fold_ptr_write(t)
    \/ hold_if_assign(t) \/ write_unlock(t)
    \/ read_lock(t) \/ SignalShared_deref(t) \/ read_unlock(t)

\* Every thread keeps running, and a lock that stays free is acquired.
SpecLockFair == SpecLock /\ \A t \in Thread : WF_vars(Step(t))

\* A send, sample or sample_with is over when it returned or panicked.
Finished(t) == thr[t].pc \in {"idle", "panicked"}

\* C19: unless a callback asked for the write lock of the storage while
\* its thread held the read lock, every send, sample and sample_with
\* that began is eventually over.
C19_NoDeadlock ==
    \/ <>(upd.reentered)
    \/ \A t \in Thread : (thr[t].pc # "idle") ~> Finished(t)

\* ------------------------------------------------- a callback that panics
InitFault == InitWith(<<"int">>)

\* The latest send ended in a panic.
Panicked == \E i \in 1..Len(evals) : evals[i][2] = "panic"

\* Nothing is sent on the thread a panic unwound.
NextFault ==
    /\ ~Panicked
    /\ \/ \E s \in Node : \E v \in Payload(s) : Sink_send(s, v)
       \/ \E n \in Node : Stream_map(n, "inc")
       \/ \E n \in Node : Stream_filter_map(n, "opt", "boom", 0)
       \/ \E n \in Node : cells = 0 /\ Stream_hold(n, 0)
       \/ \E n \in Node : Drop_Stream(n)

SpecFault == InitFault /\ [][NextFault]_vars

\* The entries of registry r a call finds alive, in order.
AliveEntries(r) ==
    SelectSeq(regs[r], LAMBDA cl : IF cl.kind \in {"hold_if", "fold"}
                                   THEN cl.c \in LiveCells(regs)
                                   ELSE cl.w \in LiveNodes(regs))

\* The registry whose entry panicked, given there is one.
FaultAt(es) == es[CHOOSE i \in 1..Len(es) : es[i][2] = "panic"][1]

\* The entries of r up to the one the panic came out of: the entry that
\* panicked when r is the registry n of the fault, the entry that leads
\* to n when r is above n.
UpToFault(r, n, v) ==
    LET es == AliveEntries(r)
        on == {i \in 1..Len(es) :
                 \/ r = n /\ es[i].kind = "filter_map" /\ Faults(es[i].g, v)
                 \/ r # n /\ es[i].kind = "filter_map"
                          /\ (es[i].w = n \/ n \in Reach(es[i].w))}
    IN  CHOOSE i \in on : \A j \in on : i <= j

\* C20 as stated: a callback that panics aborts the rest of its own
\* registry's pass, and of no other registry: every other registry called
\* on the walk runs all its entries.
C20_FaultPerRegistry ==
    [][ (\E i \in 1..Len(evals') : evals'[i][2] = "panic") =>
          LET n == FaultAt(evals') IN
          \A r \in Node :
              CallsOn(r)' # <<>> =>
                  RunsOn(r)' = IF r = n THEN UpToFault(r, n, CallsOn(r)'[1])
                                        ELSE Len(AliveEntries(r)) ]_vars

\* C20, amended: a callback that panics aborts the rest of its registry's
\* pass and of the pass of every registry above it on the walk; the
\* registries the walk had left before the panic ran all their entries.
C20_FaultUnwinds ==
    [][ (\E i \in 1..Len(evals') : evals'[i][2] = "panic") =>
          LET n == FaultAt(evals') IN
          \A r \in Node :
              CallsOn(r)' # <<>> =>
                  RunsOn(r)' = IF r = n \/ n \in Reach(r)
                               THEN UpToFault(r, n, CallsOn(r)'[1])
                               ELSE Len(AliveEntries(r)) ]_vars

\* C20 witness: the sink feeds stream a and then a hold; the panic came
\* out of the registry of a, and the hold registered on the sink did not
\* get the event.
C20_Witness ==
    /\ Panicked
    /\ \E a \in Node, c \in Node :
          /\ a # c /\ FaultAt(evals) = a
          /\ Len(regs[1]) = 2 /\ Len(regs[a]) = 1
          /\ regs[1][1].w = a /\ regs[1][2].kind = "hold_if"
          /\ regs[a][1].w = c /\ regs[a][1].g = "boom"
          /\ calls = << <<1, sent[1][2]>>, <<a, sent[1][2] + 1>> >>
          /\ evals = << <<1, "some">>, <<a, "panic">> >>
          /\ store[1] = 0

\* ------------------------------------------------ SignalShared::into_inner
\* An into_inner that hands out the storage and keeps the parent stream.
SignalShared_into_inner_keep(c) ==
    /\ c \in sigs
    /\ sigmade[c].op \in {"hold_if", "fold"}
    /\ sigmade' = [sigmade EXCEPT ![c].op = "into_inner"]
    /\ UNCHANGED <<graphVars, regs, handleVars, cells, store, sigsrc, id, hist, cur,
                   chanVars, dynVars, lockVars>>
    /\ NoTrace

\* SignalShared::into_inner: `self.0`; the Rc of the parent stream is
\* dropped with self, the program holds the Arc<RwLock<T>>.
SignalShared_into_inner(c) ==
    /\ c \in sigs
    /\ sigmade[c].op \in {"hold_if", "fold"}
    /\ sigmade' = [sigmade EXCEPT ![c].op = "into_inner"]
    /\ sigsrc'  = [sigsrc EXCEPT ![c] = NoNode]
    /\ UNCHANGED <<graphVars, regs, handleVars, cells, store, id, hist, cur,
                   chanVars, dynVars, lockVars>>
    /\ NoTrace

\* From<Arc<RwLock<T>>>: `SignalShared(val, None)`
SignalShared_from(c) ==
    /\ c \in sigs
    /\ sigmade[c].op = "into_inner"
    /\ sigmade' = [sigmade EXCEPT ![c].op = "from"]
    /\ sigsrc'  = [sigsrc EXCEPT ![c] = NoNode]
    /\ UNCHANGED <<graphVars, regs, handleVars, cells, store, id, hist, cur,
                   chanVars, dynVars, lockVars>>
    /\ NoTrace

InitInner == InitWith(<<"int">>)

NextInner ==
    \/ \E s \in Node : \E v \in Payload(s) :
          /\ \A c \in Cell : Len(hist[c]) < MaxHist - 1
          /\ Sink_send(s, v)
    \/ \E n \in Node : Stream_map(n, "inc")
    \/ \E n \in Node : cells = 0 /\ Stream_hold(n, 0)
    \/ \E n \in Node : cells = 0 /\ Stream_hold_if(n, 0, "even")
    \/ \E n \in Node : Drop_Stream(n)
    \/ \E c \in Cell : SignalShared_into_inner(c)
    \/ \E c \in Cell : SignalShared_from(c)

SpecInner == InitInner /\ [][NextInner]_vars

\* The registry that holds the closure writing storage c.
Writer(c) ==
    CHOOSE n \in Node : \E i \in 1..Len(regs[n]) :
        regs[n][i].kind \in {"hold_if", "fold"} /\ regs[n][i].c = c

\* The registries alive through something other than the parent
\* reference of signal c.
LiveWithout(c) ==
    LiveFrom(regs, sinks \cup StreamOwns(streams \cup SigParents(sigs \ {c})))

\* The storage is an Arc the program got from into_inner, or a
\* SignalShared rebuilt from it.
IsInner(c) == c <= cells /\ sigmade[c].op \in {"into_inner", "from"}

\* C21: into_inner leaves the storage alive with its value and drops the
\* signal's reference to the parent stream, so that a parent nothing else
\* holds is dead afterwards; from then on, and for the SignalShared built
\* from the storage, no parent is held, and while the parent is dead no
\* send calls its registry or changes the stored value.
C21_IntoInner ==
    [][ \A c \in Cell :
          /\ (c <= cells /\ ~IsInner(c) /\ IsInner(c)') =>
                /\ store'[c] = store[c]
                /\ c \in LiveCells(regs)'
                /\ sigsrc'[c] = NoNode
                /\ Writer(c) \notin LiveWithout(c) => Writer(c) \notin LiveNodes(regs)'
          /\ IsInner(c) =>
                /\ sigsrc'[c] = NoNode
                /\ c \in LiveCells(regs)'
                /\ Writer(c) \notin LiveNodes(regs) =>
                      /\ store'[c] = store[c]
                      /\ CallsOn(Writer(c))' = <<>> ]_vars

\* C21 witness: the hold of a mapped stream stored 2, the stream handle
\* was dropped and the signal taken apart and rebuilt; the sink was then
\* sent 2, the map closure was pruned and the storage still holds 2.
C21_Witness ==
    \E c \in Cell :
        /\ IsInner(c) /\ sigmade[c].op = "from"
        /\ Writer(c) # 1 /\ Writer(c) \notin LiveNodes(regs)
        /\ sent = << <<1, 2>> >> /\ calls = sent
        /\ regs[1] = <<>>
        /\ store[c] = 2

\* ------------------------------- the same inner stream delivered again
\* The subscriptions of switch o on registry s, in push order.
SubsOn(R, s, o) ==
    SelectSeq(R[s], LAMBDA cl : cl.kind = "switch_inner" /\ cl.w = o)

\* C22: when a single event is sent on the inner stream s delivered last
\* to the live switch o, the output is called once with it however many
\* subscriptions of o the earlier deliveries left on s, and after the
\* event s holds the subscription of the current generation and no other.
C22_RedeliveredOnce ==
    [][ \A o \in Node, s \in Node :
          (/\ IsSwitch(o) /\ o \in LiveNodes(regs) /\ cur[o] = s
           /\ Len(sent') = 1 /\ sent'[1][1] = s) =>
              /\ CallsOn(o)' = <<sent'[1][2]>>
              /\ SubsOn(regs', s, o) =
                    SelectSeq(SubsOn(regs, s, o), LAMBDA cl : cl.my_id = id[o])
              /\ Len(SubsOn(regs', s, o)) = 1 ]_vars

\* C22 witness: stream s was delivered, then another stream, then s
\* again; an event on s reached the output once, and of the two
\* subscriptions on s the one of generation 3 is left, while the stale
\* one on the other stream is still there.
C22_Witness ==
    \E o \in Node, s \in Node, t \in Node :
        /\ IsSwitch(o) /\ o \in LiveNodes(regs) /\ s # t
        /\ id[o] = 3 /\ cur[o] = s
        /\ Len(sent) = 1 /\ sent[1][1] = s
        /\ calls = <<sent[1], <<o, sent[1][2]>> >>
        /\ Len(SubsOn(regs, s, o)) = 1 /\ SubsOn(regs, s, o)[1].my_id = 3
        /\ Len(SubsOn(regs, t, o)) = 1 /\ SubsOn(regs, t, o)[1].my_id = 2

\* --------------------------------------------------------- Stream::channel
\* Stream::channel: the closure holding tx is pushed on self, rx returned.
Stream_channel(self) ==
    /\ self \in Held
    /\ ty[self] = "int"
    /\ recv.held = "none"
    /\ recv' = [recv EXCEPT !.held = "held"]
    /\ regs' = Callbacks_push(regs, self, Closure("channel", 0, 0, "", "", 0, 0))
    /\ UNCHANGED <<graphVars, handleVars, cellVars, id, hist, cur, chan, chsig,
                   dynVars, lockVars>>
    /\ NoTrace

\* Receiver::try_recv with an item queued
Receiver_try_recv ==
    /\ recv.held = "held"
    /\ chan.rx # <<>>
    /\ recv' = [recv EXCEPT !.got = Append(@, Head(chan.rx))]
    /\ chan' = [chan EXCEPT !.rx = Tail(@)]
    /\ UNCHANGED <<graphVars, regs, handleVars, cellVars, id, hist, cur, chsig,
                   dynVars, lockVars>>
    /\ NoTrace

\* drop(rx): what is still queued goes with it.
Drop_Receiver ==
    /\ recv.held = "held"
    /\ recv' = [recv EXCEPT !.held = "dropped"]
    /\ chan' = [chan EXCEPT !.rx = <<>>]
    /\ UNCHANGED <<graphVars, regs, handleVars, cellVars, id, hist, cur, chsig,
                   dynVars, lockVars>>
    /\ NoTrace

InitRx == InitWith(<<"int">>)

NextRx ==
    \/ \E s \in Node : \E v \in Payload(s) : chan.total < MaxHist /\ Sink_send(s, v)
    \/ \E n \in Node : Stream_map(n, "inc")
    \/ \E n \in Node : Stream_channel(n)
    \/ Receiver_try_recv
    \/ Drop_Receiver
    \/ \E n \in Node : Drop_Stream(n)

SpecRx == InitRx /\ [][NextRx]_vars

\* The channel closures registered on n.
ChannelOn(R, n) == SelectSeq(R[n], LAMBDA cl : cl.kind = "channel")

\* C23: while rx is held, a propagation appends to the queue the events
\* delivered to the stream channel was called on, each once, in delivery
\* order, and try_recv takes them from the front; once rx is dropped, the
\* first call of the stream removes the channel closure and nothing is
\* queued again; and rx does not keep the stream alive: with the stream
\* dead and rx held, a send neither calls the stream nor queues anything.
C23_ChannelDelivers ==
    [][ \A n \in Node :
          ChannelOn(regs, n) # <<>> =>
              /\ (recv.held = "held" /\ sent' # <<>>) =>
                    /\ chan'.rx = chan.rx \o CallsOn(n)'
                    /\ recv' = recv
                    /\ CallsOn(n)' # <<>> => ChannelOn(regs', n) = ChannelOn(regs, n)
              /\ (recv.held = "held" /\ recv'.got # recv.got) =>
                    /\ chan.rx # <<>>
                    /\ recv'.got = Append(recv.got, Head(chan.rx))
                    /\ chan'.rx = Tail(chan.rx)
              /\ recv.held = "dropped" =>
                    /\ chan'.rx = <<>> /\ chan'.total = chan.total
                    /\ CallsOn(n)' # <<>> => ChannelOn(regs', n) = <<>>
              /\ n \notin LiveNodes(regs) =>
                    /\ CallsOn(n)' = <<>>
                    /\ sent' # <<>> => chan'.rx = chan.rx ]_vars

\* C23 witness: 1 and 2 were sent to the sink after channel was called
\* on a mapped stream; the program took the first item from rx and the
\* second is queued.
C23_Witness ==
    \E n \in Node :
        /\ n # 1 /\ ChannelOn(regs, n) # <<>> /\ recv.held = "held"
        /\ chan.total = 2
        /\ recv.got = <<2>> /\ chan.rx = <<3>>

====
